---- MODULE Spec2Model ----
(***************************************************************************)
(* Position / risk / portfolio accounting engine of the TradingView signal *)
(* agent (valuecell/agents/tradingview_signal_agent).                       *)
(*                                                                         *)
(* The ledger (PositionManager) and the admissibility check                *)
(* (PortfolioManager.can_open_new_position) are modelled as a state        *)
(* machine over one trading session.  Python floats are modelled as exact  *)
(* rationals <<numerator, denominator>> in lowest terms with a positive    *)
(* denominator, so equalities are those of real arithmetic; IEEE rounding  *)
(* is not modelled.  Wall-clock fields (opened_at, closed_at,              *)
(* holding_duration, last_updated) and the SQLite tables are left out of   *)
(* the state; what a database write meets (success, an exception of        *)
(* connect, an exception of the statement) is an input of open, add,      *)
(* reduce and close.  Tasks of the event loop interleave only where a     *)
(* handler awaits a database write.                                       *)
(***************************************************************************)
EXTENDS Integers, Sequences, FiniteSets, TLC

VARIABLES
    config,            \* TradingSessionConfig (current_capital is mutated)
    positions,         \* PositionManager.positions: dict symbol -> Position
    pos_order,         \* insertion order of the keys of the dict
    closed_positions,  \* PositionManager.closed_positions
    trade_history,     \* PositionManager.trade_history
    next_id,           \* number of position ids drawn so far (uuid4 is fresh)
    pending,           \* the update_positions task suspended at a database
                       \* write: the items of its loop still to visit and its
                       \* prices; <<>> when no such task is suspended
    last               \* the last call: operation, arguments, result

vars == <<config, positions, pos_order, closed_positions, trade_history,
          next_id, pending, last>>

----------------------------------------------------------------------------
(* Bounds of the model *)

\* trades recorded before the ledger stops accepting open/add/reduce/close
MaxTrades == 2
\* longest candle list handed to an invalidation check of the ledger
MaxCandles == 2
\* longest candle list, and largest candle count, a rule is evaluated on
MaxRuleCandles == 3

----------------------------------------------------------------------------
(* Exact rational arithmetic standing for the float arithmetic *)

Abs(x) == IF x < 0 THEN -x ELSE x

RECURSIVE GCD(_, _)
GCD(a, b) == IF b = 0 THEN a ELSE GCD(b, a % b)

Rat(n, d) ==
    LET s == IF d < 0 THEN -1 ELSE 1
        g == GCD(Abs(n), Abs(d))
    IN  <<(s * n) \div g, (s * d) \div g>>

R(i) == <<i, 1>>
RAdd(a, b) == Rat(a[1] * b[2] + b[1] * a[2], a[2] * b[2])
RSub(a, b) == Rat(a[1] * b[2] - b[1] * a[2], a[2] * b[2])
RMul(a, b) == Rat(a[1] * b[1], a[2] * b[2])
RDiv(a, b) == Rat(a[1] * b[2], a[2] * b[1])
RAbs(a) == <<Abs(a[1]), a[2]>>
RLt(a, b) == a[1] * b[2] < b[1] * a[2]
RLe(a, b) == a[1] * b[2] <= b[1] * a[2]
RGt(a, b) == RLt(b, a)
RGe(a, b) == RLe(b, a)

RECURSIVE RSum(_)
RSum(seq) == IF seq = <<>> THEN R(0) ELSE RAdd(Head(seq), RSum(Tail(seq)))

----------------------------------------------------------------------------
(* Input domains *)

Symbols == {"BTC", "ETH"}
Sides == {"long", "short"}
Quantities == {1, 2}
Prices == {49000, 50000, 51000}
EntryPrices == {50000}
\* 0 is rejected by the Position model, 10 is accepted
Leverages == {0, 10}
Confidences == {R(1)}
RiskUsds == {R(500)}
ExitReasons == {"signal", "manual"}
Notionals == {0, 10000, 18000, 50000, 100000}

\* Python's None for an optional float
None == <<>>

InvalidationCondition(type, price, n) ==
    [condition_type |-> type, trigger_price |-> price, candle_closes |-> n]

\* the invalidation rule a position of the ledger is opened with: a long is
\* invalidated by closes below a level, a short by closes above one
RulesFor(side) ==
    IF side = "long"
    THEN { InvalidationCondition("price_close_below", R(50000), 2) }
    ELSE { InvalidationCondition("price_close_above", R(49000), 1) }

\* (stop_loss, profit_target) of an open: around the entry either way round, and
\* out of reach of the ticks
Brackets == { <<49000, 51000>>, <<51000, 49000>>, <<48000, 52000>> }

CandleCloses == {49000, 50000}

RECURSIVE SeqsUpTo(_, _)
SeqsUpTo(S, n) ==
    IF n = 0 THEN {<<>>}
    ELSE LET shorter == SeqsUpTo(S, n - 1)
         IN  shorter \cup { Append(q, x) : q \in shorter, x \in S }

\* recent_candles, reduced to the "close" of each candle
CandleLists == SeqsUpTo({R(c) : c \in CandleCloses}, MaxCandles)

\* current_prices: a dict over some of the symbols
PriceMaps == UNION { [D -> {R(p) : p \in Prices}] : D \in SUBSET Symbols }

----------------------------------------------------------------------------
(* models.py *)

\* TradingSessionConfig with the defaults of the model class
TradingSessionConfig(capital, pyramiding, maxpos, sizepct) ==
    [ initial_capital          |-> capital,
      current_capital          |-> capital,
      max_position_size_pct    |-> sizepct,
      max_total_exposure_pct   |-> Rat(60, 100),
      max_concurrent_positions |-> maxpos,
      risk_per_trade_pct       |-> Rat(2, 100),
      allow_pyramiding         |-> pyramiding,
      max_leverage             |-> 20,
      default_leverage         |-> 10 ]

\* Field(..., ge=1, le=40) and Field(..., ge=0, le=1) of Position
PositionValid(leverage, confidence) ==
    /\ leverage >= 1 /\ leverage <= 40
    /\ RGe(confidence, R(0)) /\ RLe(confidence, R(1))

\* recent_candles[-n:]
LastSlice(candles, n) ==
    LET len == Len(candles)
        from == IF n > 0 THEN (IF n >= len THEN 1 ELSE len - n + 1)
                ELSE (IF -n >= len THEN len + 1 ELSE -n + 1)
    IN  SubSeq(candles, from, len)

\* faulty variant: one close below the trigger price is enough
AllBelow_any(closes, trigger_price) ==
    \E i \in 1..Len(closes) : RLt(closes[i], trigger_price)

\* all(close < self.trigger_price for close in closes)
AllBelow(closes, trigger_price) ==
    \A i \in 1..Len(closes) : RLt(closes[i], trigger_price)

\* all(close > self.trigger_price for close in closes)
AllAbove(closes, trigger_price) ==
    \A i \in 1..Len(closes) : RGt(closes[i], trigger_price)

\* a float used as a condition: None and 0.0 are false
Truthy(x) == x # None /\ x # R(0)

is_triggered(ic, recent_candles) ==
    IF recent_candles = <<>> \/ Len(recent_candles) < ic.candle_closes
    THEN FALSE
    ELSE IF ic.condition_type = "price_close_below" /\ Truthy(ic.trigger_price)
    THEN AllBelow(LastSlice(recent_candles, ic.candle_closes), ic.trigger_price)
    ELSE IF ic.condition_type = "price_close_above" /\ Truthy(ic.trigger_price)
    THEN AllAbove(LastSlice(recent_candles, ic.candle_closes), ic.trigger_price)
    ELSE FALSE

\* faulty variant: the P&L of a mark is added to that of the mark before
calculate_unrealized_pnl_accumulated(pos, current_price) ==
    LET pnl == IF pos.side = "long"
               THEN RMul(RSub(current_price, pos.entry_price), pos.quantity)
               ELSE RMul(RSub(pos.entry_price, current_price), pos.quantity)
    IN  [pos EXCEPT !.current_price = current_price,
                    !.unrealized_pnl = RAdd(@, pnl)]

calculate_unrealized_pnl(pos, current_price) ==
    LET pnl == IF pos.side = "long"
               THEN RMul(RSub(current_price, pos.entry_price), pos.quantity)
               ELSE RMul(RSub(pos.entry_price, current_price), pos.quantity)
    IN  [pos EXCEPT !.current_price = current_price,
                    !.unrealized_pnl = pnl,
                    !.unrealized_pnl_pct =
                        IF RGt(pos.notional_value, R(0))
                        THEN RMul(RDiv(pnl, pos.notional_value), R(100))
                        ELSE @]

check_invalidation(pos, recent_candles) ==
    is_triggered(pos.invalidation_condition, recent_candles)

----------------------------------------------------------------------------
(* position_manager.py: the operations as functions of the ledger state *)

\* the mutable state an operation of the ledger reads and writes
Ledger ==
    [ capital          |-> config.current_capital,
      positions        |-> positions,
      pos_order        |-> pos_order,
      closed_positions |-> closed_positions,
      trade_history    |-> trade_history ]

\* self.positions[symbol] = position
DictSet(L, symbol, position) ==
    [L EXCEPT !.positions = (symbol :> position) @@ L.positions,
              !.pos_order = IF symbol \in DOMAIN L.positions
                            THEN @ ELSE Append(@, symbol)]

\* faulty variant: the key stays in the dict
DictDel_kept(L, symbol) == L

\* del self.positions[symbol]
DictDel(L, symbol) ==
    [L EXCEPT !.positions = [t \in (DOMAIN L.positions) \ {symbol} |-> L.positions[t]],
              !.pos_order = SelectSeq(@, LAMBDA t : t # symbol)]

\* _record_trade: "price": price or position.entry_price
record_trade(L, action, position, price, extra_data, pnl) ==
    [L EXCEPT !.trade_history = Append(@,
        [ position_id |-> position.position_id,
          action      |-> action,
          symbol      |-> position.symbol,
          side        |-> position.side,
          quantity    |-> position.quantity,
          price       |-> IF Truthy(price) THEN price ELSE position.entry_price,
          extra       |-> extra_data,
          pnl         |-> pnl ])]

NewPosition(id, symbol, side, quantity, entry_price, profit_target, stop_loss, ic, leverage, confidence, risk_usd) ==
    LET notional_value   == RMul(quantity, entry_price)
        risk_amount      == RMul(quantity, RAbs(RSub(entry_price, stop_loss)))
        reward_potential == RMul(quantity, RAbs(RSub(profit_target, entry_price)))
    IN  [ position_id            |-> id,
          symbol                 |-> symbol,
          side                   |-> side,
          quantity               |-> quantity,
          notional_value         |-> notional_value,
          leverage               |-> leverage,
          entry_price            |-> entry_price,
          current_price          |-> entry_price,
          profit_target          |-> profit_target,
          stop_loss_price        |-> stop_loss,
          invalidation_condition |-> ic,
          risk_usd               |-> risk_usd,
          risk_amount            |-> risk_amount,
          reward_potential       |-> reward_potential,
          risk_reward_ratio      |-> IF RGt(risk_amount, R(0))
                                     THEN RDiv(reward_potential, risk_amount)
                                     ELSE R(0),
          confidence             |-> confidence,
          unrealized_pnl         |-> R(0),
          unrealized_pnl_pct     |-> R(0) ]

margin_required(position) == RDiv(position.notional_value, R(position.leverage))

\* open_position once the Position object has been constructed
open_position(L, position) ==
    LET L1 == DictSet(L, position.symbol, position)
        L2 == [L1 EXCEPT !.capital = RSub(@, margin_required(position))]
    IN  record_trade(L2, "OPEN", position, None, None, None)

\* faulty variant: a short is settled like a long
RealizedPnl_as_long(position, exit_price, quantity) ==
    RMul(RSub(exit_price, position.entry_price), quantity)

RealizedPnl(position, exit_price, quantity) ==
    IF position.side = "long"
    THEN RMul(RSub(exit_price, position.entry_price), quantity)
    ELSE RMul(RSub(position.entry_price, exit_price), quantity)

ClosedPosition(position, exit_price, exit_reason) ==
    LET realized_pnl == RealizedPnl(position, exit_price, position.quantity)
    IN  [ position_id      |-> position.position_id,
          symbol           |-> position.symbol,
          side             |-> position.side,
          quantity         |-> position.quantity,
          entry_price      |-> position.entry_price,
          exit_price       |-> exit_price,
          realized_pnl     |-> realized_pnl,
          realized_pnl_pct |-> IF RGt(position.notional_value, R(0))
                               THEN RMul(RDiv(realized_pnl, position.notional_value), R(100))
                               ELSE R(0),
          exit_reason      |-> exit_reason ]

\* faulty variant: the margin is returned without the leverage
margin_returned_unlevered(position) == position.notional_value

margin_returned(position) == RDiv(position.notional_value, R(position.leverage))

close_position(L, symbol, exit_price, exit_reason) ==
    IF symbol \notin DOMAIN L.positions
    THEN L
    ELSE LET position        == L.positions[symbol]
             closed_position == ClosedPosition(position, exit_price, exit_reason)
             L1 == [L EXCEPT !.capital =
                        RAdd(@, RAdd(margin_returned(position),
                                     closed_position.realized_pnl))]
             L2 == [DictDel(L1, symbol) EXCEPT
                        !.closed_positions = Append(@, closed_position)]
         IN  record_trade(L2, "CLOSE", position, exit_price,
                          closed_position.realized_pnl, None)

\* faulty variant: the entry price of the addition replaces the average
add_to_position_last_price(L, symbol, additional_quantity, entry_price) ==
    LET position      == L.positions[symbol]
        new_quantity  == RAdd(position.quantity, additional_quantity)
        updated       == [position EXCEPT
                             !.quantity = new_quantity,
                             !.entry_price = entry_price,
                             !.notional_value = RMul(new_quantity, entry_price)]
        additional_margin == RDiv(RMul(additional_quantity, entry_price),
                                  R(position.leverage))
        L1 == [L EXCEPT !.positions[symbol] = updated,
                        !.capital = RSub(@, additional_margin)]
    IN  record_trade(L1, "ADD", updated, entry_price, additional_quantity, None)

\* add_to_position past its two ValueError guards
add_to_position(L, symbol, additional_quantity, entry_price) ==
    LET position      == L.positions[symbol]
        total_cost    == RAdd(RMul(position.quantity, position.entry_price),
                              RMul(additional_quantity, entry_price))
        new_quantity  == RAdd(position.quantity, additional_quantity)
        new_avg_price == RDiv(total_cost, new_quantity)
        updated       == [position EXCEPT
                             !.quantity = new_quantity,
                             !.entry_price = new_avg_price,
                             !.notional_value = RMul(new_quantity, new_avg_price)]
        additional_margin == RDiv(RMul(additional_quantity, entry_price),
                                  R(position.leverage))
        L1 == [L EXCEPT !.positions[symbol] = updated,
                        !.capital = RSub(@, additional_margin)]
    IN  record_trade(L1, "ADD", updated, entry_price, additional_quantity, None)

\* faulty variant: a reduce by exactly the live quantity is not a full close
reduce_position_strict(L, symbol, reduce_quantity, exit_price, reason) ==
    LET position == L.positions[symbol]
    IN  IF RGt(reduce_quantity, position.quantity)
        THEN close_position(L, symbol, exit_price, reason)
        ELSE LET partial_pnl == RealizedPnl(position, exit_price, reduce_quantity)
                 quantity    == RSub(position.quantity, reduce_quantity)
                 updated     == [position EXCEPT
                                    !.quantity = quantity,
                                    !.notional_value = RMul(quantity, position.entry_price)]
                 margin_back == RDiv(RMul(reduce_quantity, position.entry_price),
                                     R(position.leverage))
                 L1 == [L EXCEPT !.positions[symbol] = updated,
                                 !.capital = RAdd(@, RAdd(margin_back, partial_pnl))]
             IN  record_trade(L1, "REDUCE", updated, exit_price,
                              reduce_quantity, partial_pnl)

\* reduce_position past its ValueError guard
reduce_position(L, symbol, reduce_quantity, exit_price, reason) ==
    LET position == L.positions[symbol]
    IN  IF RGe(reduce_quantity, position.quantity)
        THEN close_position(L, symbol, exit_price, reason)
        ELSE LET partial_pnl == RealizedPnl(position, exit_price, reduce_quantity)
                 quantity    == RSub(position.quantity, reduce_quantity)
                 updated     == [position EXCEPT
                                    !.quantity = quantity,
                                    !.notional_value = RMul(quantity, position.entry_price)]
                 margin_back == RDiv(RMul(reduce_quantity, position.entry_price),
                                     R(position.leverage))
                 L1 == [L EXCEPT !.positions[symbol] = updated,
                                 !.capital = RAdd(@, RAdd(margin_back, partial_pnl))]
             IN  record_trade(L1, "REDUCE", updated, exit_price,
                              reduce_quantity, partial_pnl)

StopLossHit(position, current_price) ==
    IF position.side = "long"
    THEN RLe(current_price, position.stop_loss_price)
    ELSE RGe(current_price, position.stop_loss_price)

TakeProfitHit(position, current_price) ==
    \/ position.side = "long"  /\ RGe(current_price, position.profit_target)
    \/ position.side = "short" /\ RLe(current_price, position.profit_target)

\* faulty variant: the take profit is looked at before the stop loss
check_take_profit_stop_loss(L, position, current_price) ==
    IF TakeProfitHit(position, current_price)
    THEN close_position(L, position.symbol, current_price, "take_profit")
    ELSE IF StopLossHit(position, current_price)
    THEN close_position(L, position.symbol, current_price, "stop_loss")
    ELSE L

check_stop_loss_take_profit(L, position, current_price) ==
    IF StopLossHit(position, current_price)
    THEN close_position(L, position.symbol, current_price, "stop_loss")
    ELSE IF TakeProfitHit(position, current_price)
    THEN close_position(L, position.symbol, current_price, "take_profit")
    ELSE L

\* faulty variant: a position without a price in the tick is marked at its
\* entry price
RECURSIVE update_positions_marks_all(_, _, _)
update_positions_marks_all(L, items, current_prices) ==
    IF items = <<>> THEN L
    ELSE LET symbol == Head(items)
             current_price == IF symbol \in DOMAIN current_prices
                              THEN current_prices[symbol]
                              ELSE L.positions[symbol].entry_price
             position == calculate_unrealized_pnl(L.positions[symbol], current_price)
             L1 == [L EXCEPT !.positions[symbol] = position]
         IN  update_positions_marks_all(
                 check_stop_loss_take_profit(L1, position, current_price),
                 Tail(items), current_prices)

\* the loop of update_positions over list(self.positions.items())
RECURSIVE update_positions(_, _, _)
update_positions(L, items, current_prices) ==
    IF items = <<>> THEN L
    ELSE LET symbol == Head(items)
         IN  IF symbol \in DOMAIN current_prices
             THEN LET position == calculate_unrealized_pnl(L.positions[symbol],
                                                           current_prices[symbol])
                      L1 == [L EXCEPT !.positions[symbol] = position]
                  IN  update_positions(
                          check_stop_loss_take_profit(L1, position, current_prices[symbol]),
                          Tail(items), current_prices)
             ELSE update_positions(L, Tail(items), current_prices)

\* the value check_invalidation_conditions returns
InvalidationTriggered(L, symbol, recent_candles) ==
    /\ symbol \in DOMAIN L.positions
    /\ check_invalidation(L.positions[symbol], recent_candles)

\* faulty variant: the oldest candle of the list gives the exit price
LatestClose_oldest(recent_candles) == recent_candles[1]

\* recent_candles[-1]["close"]
LatestClose(recent_candles) == recent_candles[Len(recent_candles)]

check_invalidation_conditions(L, symbol, recent_candles) ==
    IF InvalidationTriggered(L, symbol, recent_candles)
    THEN close_position(L, symbol, LatestClose(recent_candles),
                        "invalidation_triggered")
    ELSE L

get_total_realized_pnl(L) ==
    RSum([i \in 1..Len(L.closed_positions) |-> L.closed_positions[i].realized_pnl])

----------------------------------------------------------------------------
(* position_database.py: what a write returns to the ledger *)

\* what happens to a write: it succeeds, sqlite3.connect raises (the call is
\* outside the try), or the statement raises inside the try
DbOutcomes == {"ok", "connect_fails", "execute_fails"}

\* save_trade_record / save_position / save_closed_position: True, the exception
\* of connect, or False once the exception of the statement is logged
save_trade_record(db) ==
    IF db = "connect_fails" THEN "raise sqlite3.Error"
    ELSE IF db = "execute_fails" THEN "False" ELSE "True"

save_position(db) ==
    IF db = "connect_fails" THEN "raise sqlite3.Error"
    ELSE IF db = "execute_fails" THEN "False" ELSE "True"

save_closed_position(db) ==
    IF db = "connect_fails" THEN "raise sqlite3.Error"
    ELSE IF db = "execute_fails" THEN "False" ELSE "True"

----------------------------------------------------------------------------
(* risk_manager.py, portfolio_manager.py *)

\* list(self.positions.values())
get_open_positions(L) == [i \in 1..Len(L.pos_order) |-> L.positions[L.pos_order[i]]]

get_total_exposure(open_positions) ==
    RSum([i \in 1..Len(open_positions) |-> open_positions[i].notional_value])

\* faulty variant: the size limit is taken from the total exposure limit
MaxPositionSize_of_exposure(cfg, L) == RMul(L.capital, cfg.max_total_exposure_pct)

\* self.config.current_capital * self.config.max_position_size_pct
MaxPositionSize(cfg, L) == RMul(L.capital, cfg.max_position_size_pct)

\* faulty variant: the limit on the number of positions admits one more
can_open_new_position_past_limit(cfg, L, symbol, position_size_usd) ==
    LET current_positions == Len(get_open_positions(L))
    IN  IF current_positions > cfg.max_concurrent_positions
        THEN [ok |-> FALSE, reason |-> "Max positions reached"]
        ELSE IF RGt(position_size_usd, MaxPositionSize(cfg, L))
        THEN [ok |-> FALSE, reason |-> "Position size exceeds limit"]
        ELSE [ok |-> TRUE, reason |-> "OK"]

\* (allowed, reason); "raise" stands for the ZeroDivisionError of check 4
can_open_new_position(cfg, L, symbol, position_size_usd) ==
    LET current_positions == Len(get_open_positions(L))
        max_position_size == MaxPositionSize(cfg, L)
        total_exposure    == get_total_exposure(get_open_positions(L))
        denominator       == RAdd(L.capital, total_exposure)
    IN  IF current_positions >= cfg.max_concurrent_positions
        THEN [ok |-> FALSE, reason |-> "Max positions reached"]
        ELSE IF RGt(position_size_usd, max_position_size)
        THEN [ok |-> FALSE, reason |-> "Position size exceeds limit"]
        ELSE IF RGt(position_size_usd, L.capital)
        THEN [ok |-> FALSE, reason |-> "Insufficient capital"]
        ELSE IF denominator = R(0)
        THEN [ok |-> FALSE, reason |-> "raise ZeroDivisionError"]
        ELSE IF RGt(RDiv(RAdd(total_exposure, position_size_usd), denominator),
                    cfg.max_total_exposure_pct)
        THEN [ok |-> FALSE, reason |-> "Total exposure exceeds limit"]
        ELSE IF symbol \in DOMAIN L.positions /\ ~cfg.allow_pyramiding
        THEN [ok |-> FALSE, reason |-> "Already have position"]
        ELSE [ok |-> TRUE, reason |-> "OK"]

\* risk_usd summed over the total capital; faulty variant: over the available
\* capital alone
calculate_portfolio_heat_of_available(cfg, open_positions) ==
    LET total_risk == RSum([i \in 1..Len(open_positions) |-> open_positions[i].risk_usd])
    IN  IF cfg.current_capital = R(0) THEN R(0)
        ELSE RDiv(total_risk, cfg.current_capital)

calculate_portfolio_heat(cfg, open_positions) ==
    LET total_risk    == RSum([i \in 1..Len(open_positions) |-> open_positions[i].risk_usd])
        total_capital == RAdd(cfg.current_capital, get_total_exposure(open_positions))
    IN  IF total_capital = R(0) THEN R(0)
        ELSE RDiv(total_risk, total_capital)

----------------------------------------------------------------------------
(* performance_analytics.py *)

\* PerformanceAnalytics.closed_positions: the list of the analytics object
\* itself, empty at construction.  add_closed_position is its only writer and
\* nothing in the sources calls it, so the list is what __init__ left.
analytics_closed_positions == <<>>

\* faulty variant: a flat trade counts as a win
IsWin_or_flat(p) == RGe(p.realized_pnl, R(0))

IsWin(p) == RGt(p.realized_pnl, R(0))
IsLoss(p) == RLt(p.realized_pnl, R(0))

\* winning_trades and losing_trades: the records of closed, in order
Winning(closed) == SelectSeq(closed, IsWin)
Losing(closed) == SelectSeq(closed, IsLoss)

RealizedOf(closed) == RSum([i \in 1..Len(closed) |-> closed[i].realized_pnl])

\* the statistics a snapshot merges (largest win and loss and the holding time
\* are computed too and are not merged)
calculate_statistics(closed) ==
    IF closed = <<>>
    THEN [ total_trades |-> 0, winning_trades |-> 0, losing_trades |-> 0,
           win_rate |-> R(0), avg_win |-> R(0), avg_loss |-> R(0),
           profit_factor |-> R(0) ]
    ELSE LET total_trades == Len(closed)
             num_wins     == Len(Winning(closed))
             num_losses   == Len(Losing(closed))
             total_wins   == RealizedOf(Winning(closed))
             total_losses == RAbs(RealizedOf(Losing(closed)))
         IN  [ total_trades   |-> total_trades,
               winning_trades |-> num_wins,
               losing_trades  |-> num_losses,
               win_rate       |-> IF total_trades > 0
                                  THEN Rat(num_wins, total_trades) ELSE R(0),
               avg_win        |-> IF num_wins > 0
                                  THEN RDiv(total_wins, R(num_wins)) ELSE R(0),
               avg_loss       |-> IF num_losses > 0
                                  THEN RDiv(RealizedOf(Losing(closed)), R(num_losses))
                                  ELSE R(0),
               profit_factor  |-> IF RGt(total_losses, R(0))
                                  THEN RDiv(total_wins, total_losses) ELSE R(0) ]

\* faulty variant: an equal drawdown replaces the one recorded
DrawdownStep_latest(w, value) ==
    LET peak   == IF RGt(value, w[1]) THEN value ELSE w[1]
        dd     == RSub(peak, value)
        dd_pct == IF RGt(peak, R(0)) THEN RMul(RDiv(dd, peak), R(100)) ELSE R(0)
    IN  IF RGe(dd, w[2]) THEN <<peak, dd, dd_pct>> ELSE <<peak, w[2], w[3]>>

\* one step of the walk over the equity curve: w is <<peak, max_dd, max_dd_pct>>
DrawdownStep(w, value) ==
    LET peak   == IF RGt(value, w[1]) THEN value ELSE w[1]
        dd     == RSub(peak, value)
        dd_pct == IF RGt(peak, R(0)) THEN RMul(RDiv(dd, peak), R(100)) ELSE R(0)
    IN  IF RGt(dd, w[2]) THEN <<peak, dd, dd_pct>> ELSE <<peak, w[2], w[3]>>

RECURSIVE DrawdownWalk(_, _)
DrawdownWalk(w, rest) ==
    IF rest = <<>> THEN w ELSE DrawdownWalk(DrawdownStep(w, Head(rest)), Tail(rest))

\* returns (max_dd, max_dd_pct)
calculate_max_drawdown(equity_curve) ==
    IF equity_curve = <<>> THEN <<R(0), R(0)>>
    ELSE LET w == DrawdownWalk(<<equity_curve[1], R(0), R(0)>>, equity_curve)
         IN  <<w[2], w[3]>>

----------------------------------------------------------------------------
(* risk_manager.py: margin *)

\* faulty variant: the warning and the critical level are reached at 80 and 90
check_margin_requirements_inclusive(open_positions, available_capital) ==
    LET total_margin_used ==
            RSum([i \in 1..Len(open_positions) |->
                    RDiv(open_positions[i].notional_value, R(open_positions[i].leverage))])
        margin_usage_pct ==
            IF RGt(available_capital, R(0))
            THEN RMul(RDiv(total_margin_used, available_capital), R(100))
            ELSE R(0)
    IN  [ total_margin_used |-> total_margin_used,
          available_margin  |-> available_capital,
          margin_usage_pct  |-> margin_usage_pct,
          is_warning        |-> RGe(margin_usage_pct, R(80)),
          is_critical       |-> RGe(margin_usage_pct, R(90)) ]

check_margin_requirements(open_positions, available_capital) ==
    LET total_margin_used ==
            RSum([i \in 1..Len(open_positions) |->
                    RDiv(open_positions[i].notional_value, R(open_positions[i].leverage))])
        margin_usage_pct ==
            IF RGt(available_capital, R(0))
            THEN RMul(RDiv(total_margin_used, available_capital), R(100))
            ELSE R(0)
    IN  [ total_margin_used |-> total_margin_used,
          available_margin  |-> available_capital,
          margin_usage_pct  |-> margin_usage_pct,
          is_warning        |-> RGt(margin_usage_pct, R(80)),
          is_critical       |-> RGt(margin_usage_pct, R(90)) ]

----------------------------------------------------------------------------
(* portfolio_manager.py: the snapshot *)

get_portfolio_summary(cfg, L, analytics_closed) ==
    LET open_positions       == get_open_positions(L)
        total_position_value == get_total_exposure(open_positions)
        available_capital    == cfg.current_capital
        total_capital        == RAdd(available_capital, total_position_value)
        unrealized_pnl       == RSum([i \in 1..Len(open_positions) |->
                                        open_positions[i].unrealized_pnl])
        realized_pnl         == get_total_realized_pnl(L)
        total_pnl            == RAdd(unrealized_pnl, realized_pnl)
        stats                == calculate_statistics(analytics_closed)
    IN  [ total_capital        |-> total_capital,
          available_capital    |-> available_capital,
          used_capital         |-> total_position_value,
          open_positions_count |-> Len(open_positions),
          total_position_value |-> total_position_value,
          unrealized_pnl       |-> unrealized_pnl,
          realized_pnl         |-> realized_pnl,
          total_pnl            |-> total_pnl,
          total_return_pct     |-> IF RGt(cfg.initial_capital, R(0))
                                   THEN RMul(RDiv(total_pnl, cfg.initial_capital), R(100))
                                   ELSE R(0),
          portfolio_heat       |-> calculate_portfolio_heat(cfg, open_positions),
          exposure_pct         |-> IF RGt(total_capital, R(0))
                                   THEN RMul(RDiv(total_position_value, total_capital), R(100))
                                   ELSE R(0),
          total_trades         |-> stats.total_trades,
          winning_trades       |-> stats.winning_trades,
          losing_trades        |-> stats.losing_trades,
          win_rate             |-> stats.win_rate,
          avg_win              |-> stats.avg_win,
          avg_loss             |-> stats.avg_loss,
          profit_factor        |-> stats.profit_factor ]

----------------------------------------------------------------------------
(* risk_manager.py: the sizing, stop, target and volatility functions *)

\* int(x) of Python: x without its fraction
Truncated(x) == IF x[1] >= 0 THEN x[1] \div x[2] ELSE -((-x[1]) \div x[2])

RMax(a, b) == IF RGe(a, b) THEN a ELSE b
RMin(a, b) == IF RLe(a, b) THEN a ELSE b
Max(a, b) == IF a >= b THEN a ELSE b
Min(a, b) == IF a <= b THEN a ELSE b

\* the default of TradingSessionConfig.leverage_by_confidence
leverage_by_confidence(level) ==
    CASE level = "high"   -> 15
      [] level = "medium" -> 10
      [] level = "low"    -> 5

get_leverage_for_confidence(confidence) ==
    IF RGe(confidence, Rat(75, 100)) THEN leverage_by_confidence("high")
    ELSE IF RGe(confidence, Rat(65, 100)) THEN leverage_by_confidence("medium")
    ELSE leverage_by_confidence("low")

\* faulty variant: the risk is not recomputed when the size limit clamps
SizedPosition_budget_risk(cfg, entry_price, price_risk, available_capital, confidence) ==
    LET risk_amount  == RMul(available_capital, cfg.risk_per_trade_pct)
        quantity0    == RDiv(risk_amount, price_risk)
        notional0    == RMul(quantity0, entry_price)
        max_notional == RMul(available_capital, cfg.max_position_size_pct)
        over_max     == RGt(notional0, max_notional)
        quantity1    == IF over_max THEN RDiv(max_notional, entry_price) ELSE quantity0
        notional1    == IF over_max THEN max_notional ELSE notional0
        over_capital == RGt(notional1, available_capital)
        quantity     == IF over_capital THEN RDiv(available_capital, entry_price)
                        ELSE quantity1
        notional     == IF over_capital THEN available_capital ELSE notional1
        actual_risk  == IF over_capital THEN RMul(quantity, price_risk) ELSE risk_amount
    IN  [ quantity             |-> quantity,
          notional_value       |-> notional,
          capital_usage_pct    |-> IF RGt(available_capital, R(0))
                                   THEN RMul(RDiv(notional, available_capital), R(100))
                                   ELSE R(0),
          actual_risk_amount   |-> actual_risk,
          actual_risk_pct      |-> IF RGt(available_capital, R(0))
                                   THEN RMul(RDiv(actual_risk, available_capital), R(100))
                                   ELSE R(0),
          recommended_leverage |-> get_leverage_for_confidence(confidence) ]

\* the result once both prices and the stop distance are accepted
SizedPosition(cfg, entry_price, price_risk, available_capital, confidence) ==
    LET risk_amount  == RMul(available_capital, cfg.risk_per_trade_pct)
        quantity0    == RDiv(risk_amount, price_risk)
        notional0    == RMul(quantity0, entry_price)
        max_notional == RMul(available_capital, cfg.max_position_size_pct)
        over_max     == RGt(notional0, max_notional)
        quantity1    == IF over_max THEN RDiv(max_notional, entry_price) ELSE quantity0
        notional1    == IF over_max THEN max_notional ELSE notional0
        risk1        == IF over_max THEN RMul(quantity1, price_risk) ELSE risk_amount
        over_capital == RGt(notional1, available_capital)
        quantity     == IF over_capital THEN RDiv(available_capital, entry_price)
                        ELSE quantity1
        notional     == IF over_capital THEN available_capital ELSE notional1
        actual_risk  == IF over_capital THEN RMul(quantity, price_risk) ELSE risk1
    IN  [ quantity             |-> quantity,
          notional_value       |-> notional,
          capital_usage_pct    |-> IF RGt(available_capital, R(0))
                                   THEN RMul(RDiv(notional, available_capital), R(100))
                                   ELSE R(0),
          actual_risk_amount   |-> actual_risk,
          actual_risk_pct      |-> IF RGt(available_capital, R(0))
                                   THEN RMul(RDiv(actual_risk, available_capital), R(100))
                                   ELSE R(0),
          recommended_leverage |-> get_leverage_for_confidence(confidence) ]

\* faulty variant: the stop price is not checked
calculate_position_size_entry_only(cfg, entry_price, stop_loss_price, available_capital, confidence) ==
    LET price_risk == RAbs(RSub(entry_price, stop_loss_price))
    IN  IF RLe(entry_price, R(0))
        THEN [error |-> "Invalid prices", quantity |-> R(0), notional_value |-> R(0)]
        ELSE IF price_risk = R(0)
        THEN [error |-> "Invalid stop loss", quantity |-> R(0), notional_value |-> R(0)]
        ELSE SizedPosition(cfg, entry_price, price_risk, available_capital, confidence)

calculate_position_size(cfg, entry_price, stop_loss_price, available_capital, confidence) ==
    LET price_risk == RAbs(RSub(entry_price, stop_loss_price))
    IN  IF RLe(entry_price, R(0)) \/ RLe(stop_loss_price, R(0))
        THEN [error |-> "Invalid prices", quantity |-> R(0), notional_value |-> R(0)]
        ELSE IF price_risk = R(0)
        THEN [error |-> "Invalid stop loss", quantity |-> R(0), notional_value |-> R(0)]
        ELSE SizedPosition(cfg, entry_price, price_risk, available_capital, confidence)

\* atr_multiples.get(risk_profile, 2.0)
atr_multiples(risk_profile) ==
    CASE risk_profile = "conservative" -> Rat(25, 10)
      [] risk_profile = "moderate"     -> R(2)
      [] risk_profile = "aggressive"   -> Rat(15, 10)
      [] OTHER                         -> R(2)

\* faulty variant: the stop is placed above the entry on either side
calculate_atr_based_stop_loss_above(entry_price, atr14, atr3, side, risk_profile) ==
    LET atr_multiple  == atr_multiples(risk_profile)
        atr_value     == IF risk_profile = "aggressive" /\ Truthy(atr3)
                         THEN atr3 ELSE atr14
        stop_distance == RMul(atr_value, atr_multiple)
    IN  [ stop_price    |-> RAdd(entry_price, stop_distance),
          stop_distance |-> stop_distance,
          atr_multiple  |-> atr_multiple,
          atr_value     |-> atr_value,
          risk_pct      |-> IF RGt(entry_price, R(0))
                            THEN RMul(RDiv(stop_distance, entry_price), R(100))
                            ELSE R(0),
          risk_profile  |-> risk_profile ]

calculate_atr_based_stop_loss(entry_price, atr14, atr3, side, risk_profile) ==
    LET atr_multiple  == atr_multiples(risk_profile)
        atr_value     == IF risk_profile = "aggressive" /\ Truthy(atr3)
                         THEN atr3 ELSE atr14
        stop_distance == RMul(atr_value, atr_multiple)
    IN  [ stop_price    |-> IF side = "long" THEN RSub(entry_price, stop_distance)
                            ELSE RAdd(entry_price, stop_distance),
          stop_distance |-> stop_distance,
          atr_multiple  |-> atr_multiple,
          atr_value     |-> atr_value,
          risk_pct      |-> IF RGt(entry_price, R(0))
                            THEN RMul(RDiv(stop_distance, entry_price), R(100))
                            ELSE R(0),
          risk_profile  |-> risk_profile ]

\* (atr14 / entry_price) * 100 if entry_price > 0 else 0
AtrPct(atr14, entry_price) ==
    IF RGt(entry_price, R(0)) THEN RMul(RDiv(atr14, entry_price), R(100)) ELSE R(0)

\* the factor and the state of the band of atr_ratio
SizeBand(atr_ratio) ==
    IF RGt(atr_ratio, Rat(13, 10)) THEN <<Rat(6, 10), "rapidly_expanding">>
    ELSE IF RGt(atr_ratio, Rat(11, 10)) THEN <<Rat(8, 10), "expanding">>
    ELSE IF RLt(atr_ratio, Rat(7, 10)) THEN <<Rat(12, 10), "contracting">>
    ELSE IF RLt(atr_ratio, Rat(9, 10)) THEN <<Rat(11, 10), "slightly_contracting">>
    ELSE <<R(1), "stable">>

\* faulty variant: the level of atr14 against the entry price is not applied
adjust_position_size_for_volatility_ratio_only(base_position_size, atr3, atr14, entry_price) ==
    IF atr14 = R(0)
    THEN [ adjusted_quantity |-> base_position_size,
           adjustment_factor |-> R(1),
           volatility_state  |-> "unknown" ]
    ELSE LET atr_ratio == RDiv(atr3, atr14)
             atr_pct   == AtrPct(atr14, entry_price)
             band      == SizeBand(atr_ratio)
             adjustment_factor == RMax(Rat(3, 10), RMin(Rat(15, 10), band[1]))
         IN  [ adjusted_quantity |-> RMul(base_position_size, adjustment_factor),
               adjustment_factor |-> adjustment_factor,
               volatility_state  |-> band[2],
               atr_ratio         |-> atr_ratio,
               atr_pct           |-> atr_pct ]

adjust_position_size_for_volatility(base_position_size, atr3, atr14, entry_price) ==
    IF atr14 = R(0)
    THEN [ adjusted_quantity |-> base_position_size,
           adjustment_factor |-> R(1),
           volatility_state  |-> "unknown" ]
    ELSE LET atr_ratio == RDiv(atr3, atr14)
             atr_pct   == AtrPct(atr14, entry_price)
             band      == SizeBand(atr_ratio)
             levelled  == IF RGt(atr_pct, R(3)) THEN RMul(band[1], Rat(8, 10))
                          ELSE IF RLt(atr_pct, R(1)) THEN RMul(band[1], Rat(11, 10))
                          ELSE band[1]
             adjustment_factor == RMax(Rat(3, 10), RMin(Rat(15, 10), levelled))
         IN  [ adjusted_quantity |-> RMul(base_position_size, adjustment_factor),
               adjustment_factor |-> adjustment_factor,
               volatility_state  |-> band[2],
               atr_ratio         |-> atr_ratio,
               atr_pct           |-> atr_pct ]

\* faulty variant: the band limits 1.3 and 1.1 belong to the upper band
get_volatility_adjusted_leverage_inclusive(base_leverage, atr3, atr14, entry_price) ==
    IF atr14 = R(0)
    THEN [ adjusted_leverage |-> base_leverage,
           reason            |-> "No ATR data available" ]
    ELSE LET atr_ratio == RDiv(atr3, atr14)
             atr_pct   == AtrPct(atr14, entry_price)
             adjusted  ==
                 IF RGe(atr_ratio, Rat(13, 10)) \/ RGt(atr_pct, R(3))
                 THEN <<Max(5, Truncated(RMul(R(base_leverage), Rat(6, 10)))),
                        "High volatility detected - leverage reduced for safety">>
                 ELSE IF RGe(atr_ratio, Rat(11, 10)) \/ RGt(atr_pct, R(2))
                 THEN <<Max(5, Truncated(RMul(R(base_leverage), Rat(8, 10)))),
                        "Elevated volatility - leverage reduced moderately">>
                 ELSE IF RLt(atr_ratio, Rat(7, 10)) /\ RLt(atr_pct, Rat(15, 10))
                 THEN <<Min(40, Truncated(RMul(R(base_leverage), Rat(11, 10)))),
                        "Low volatility - leverage can be maintained or increased">>
                 ELSE <<base_leverage, "Normal volatility - base leverage maintained">>
         IN  [ adjusted_leverage |-> adjusted[1],
               base_leverage     |-> base_leverage,
               atr_ratio         |-> atr_ratio,
               atr_pct           |-> atr_pct,
               reason            |-> adjusted[2] ]

get_volatility_adjusted_leverage(base_leverage, atr3, atr14, entry_price) ==
    IF atr14 = R(0)
    THEN [ adjusted_leverage |-> base_leverage,
           reason            |-> "No ATR data available" ]
    ELSE LET atr_ratio == RDiv(atr3, atr14)
             atr_pct   == AtrPct(atr14, entry_price)
             adjusted  ==
                 IF RGt(atr_ratio, Rat(13, 10)) \/ RGt(atr_pct, R(3))
                 THEN <<Max(5, Truncated(RMul(R(base_leverage), Rat(6, 10)))),
                        "High volatility detected - leverage reduced for safety">>
                 ELSE IF RGt(atr_ratio, Rat(11, 10)) \/ RGt(atr_pct, R(2))
                 THEN <<Max(5, Truncated(RMul(R(base_leverage), Rat(8, 10)))),
                        "Elevated volatility - leverage reduced moderately">>
                 ELSE IF RLt(atr_ratio, Rat(7, 10)) /\ RLt(atr_pct, Rat(15, 10))
                 THEN <<Min(40, Truncated(RMul(R(base_leverage), Rat(11, 10)))),
                        "Low volatility - leverage can be maintained or increased">>
                 ELSE <<base_leverage, "Normal volatility - base leverage maintained">>
         IN  [ adjusted_leverage |-> adjusted[1],
               base_leverage     |-> base_leverage,
               atr_ratio         |-> atr_ratio,
               atr_pct           |-> atr_pct,
               reason            |-> adjusted[2] ]

\* qty_percentages
qty_percentages == <<50, 30, 20>>

\* faulty variant: every ratio is taken
FirstThree_all(risk_reward_ratios) == risk_reward_ratios

\* risk_reward_ratios[:3]
FirstThree(risk_reward_ratios) ==
    SubSeq(risk_reward_ratios, 1, Min(3, Len(risk_reward_ratios)))

\* the targets of the ratios taken
TargetsOf(entry_price, stop_loss, side, taken) ==
    LET risk == RAbs(RSub(entry_price, stop_loss))
    IN  [ i \in 1..Len(taken) |->
            [ price |-> IF side = "long"
                        THEN RAdd(entry_price, RMul(risk, taken[i]))
                        ELSE RSub(entry_price, RMul(risk, taken[i])),
              qty_pct |-> IF i <= Len(qty_percentages) THEN qty_percentages[i] ELSE 100,
              risk_reward_ratio |-> taken[i] ] ]

calculate_take_profit_targets(entry_price, stop_loss, side, risk_reward_ratios) ==
    TargetsOf(entry_price, stop_loss, side, FirstThree(risk_reward_ratios))

----------------------------------------------------------------------------
(* The session as a state machine: one action per call of the ledger *)

\* One call of the session, as `last` records it:
\*   before     the ledger as the call found it
\*   again      the call repeats the call before it, arguments included
\*   effective  the call changed the ledger
\* A call that raised, or that left the ledger as it was, ends the run: whatever
\* may follow it is what may follow the state it was made in.
Call(op, symbol, args, ret, effective) ==
    [op |-> op, symbol |-> symbol, args |-> args, ret |-> ret,
     before |-> Ledger,
     again |-> (last.op = op /\ last.symbol = symbol /\ last.args = args),
     effective |-> effective]

\* L becomes the state of the ledger
Commit(L) ==
    /\ config' = [config EXCEPT !.current_capital = L.capital]
    /\ positions' = L.positions
    /\ pos_order' = L.pos_order
    /\ closed_positions' = L.closed_positions
    /\ trade_history' = L.trade_history

\* the session configurations: the defaults, one position at a time, a size
\* limit above the whole capital, and a capital that one losing trade uses up
Configs ==
    { TradingSessionConfig(R(100000), FALSE, 5, Rat(20, 100)),
      TradingSessionConfig(R(1000), FALSE, 5, Rat(20, 100)),
      TradingSessionConfig(R(100000), TRUE, 1, Rat(20, 100)),
      TradingSessionConfig(R(100000), TRUE, 5, Rat(150, 100)) }

Init ==
    /\ config \in Configs
    /\ positions = <<>>
    /\ pos_order = <<>>
    /\ closed_positions = <<>>
    /\ trade_history = <<>>
    /\ next_id = 0
    /\ pending = <<>>
    /\ last = [op |-> "init", symbol |-> "", args |-> <<>>, ret |-> "None",
               before |-> Ledger, again |-> FALSE, effective |-> TRUE]

\* the session takes another call
Running == last.effective

\* the ledger takes another call that may record a trade
Accepting == Running /\ Len(trade_history) < MaxTrades

\* the call, with what its database writes met
WithDb(call, db) ==
    [f \in (DOMAIN call) \cup {"db"} |-> IF f = "db" THEN db ELSE call[f]]

\* what a call that wrote to the database returns: the exception of a write, or
\* its value, whatever the writes returned
Returned(value, db) ==
    IF save_trade_record(db) = "raise sqlite3.Error" THEN "raise sqlite3.Error"
    ELSE value

\* open_position with the outcome db of its database writes
OpenPositionCall(db, symbol, side, quantity, entry_price, profit_target, stop_loss, ic, leverage, confidence, risk_usd) ==
    LET args == [side |-> side, quantity |-> quantity, entry_price |-> entry_price,
                 profit_target |-> profit_target, stop_loss |-> stop_loss,
                 leverage |-> leverage]
    IN  IF PositionValid(leverage, confidence)
        THEN /\ Commit(open_position(Ledger,
                   NewPosition(next_id + 1, symbol, side, quantity, entry_price,
                               profit_target, stop_loss, ic, leverage,
                               confidence, risk_usd)))
             /\ next_id' = next_id + 1
             /\ UNCHANGED pending
             /\ last' = WithDb(Call("open", symbol, args,
                                    Returned("Position", db), TRUE), db)
        ELSE /\ last' = WithDb(Call("open", symbol, args, "ValidationError", FALSE),
                               db)
             /\ UNCHANGED <<config, positions, pos_order, closed_positions,
                            trade_history, next_id, pending>>

\* close_position with the outcome db of its database writes
ClosePositionCall(db, symbol, exit_price, exit_reason) ==
    /\ Commit(close_position(Ledger, symbol, exit_price, exit_reason))
    /\ last' = WithDb(Call("close", symbol,
                           [exit_price |-> exit_price, exit_reason |-> exit_reason],
                           IF symbol \in DOMAIN positions
                           THEN Returned("ClosedPosition", db) ELSE "None",
                           symbol \in DOMAIN positions), db)
    /\ UNCHANGED <<next_id, pending>>

\* in the session below the database works
OpenPosition(symbol, side, quantity, entry_price, profit_target, stop_loss, ic, leverage, confidence, risk_usd) ==
    /\ Accepting
    /\ OpenPositionCall("ok", symbol, side, quantity, entry_price, profit_target,
                        stop_loss, ic, leverage, confidence, risk_usd)

ClosePosition(symbol, exit_price, exit_reason) ==
    /\ Accepting
    /\ ClosePositionCall("ok", symbol, exit_price, exit_reason)

\* faulty variant: the position is looked up before the pyramiding flag
AddToPosition_lookup_first(symbol, additional_quantity, entry_price) ==
    LET args == [additional_quantity |-> additional_quantity,
                 entry_price |-> entry_price]
    IN  /\ Accepting
        /\ IF symbol \notin DOMAIN positions
           THEN /\ last' = Call("add", symbol, args,
                                "ValueError: No position found", FALSE)
                /\ UNCHANGED <<config, positions, pos_order, closed_positions,
                               trade_history>>
           ELSE IF ~config.allow_pyramiding
           THEN /\ last' = Call("add", symbol, args,
                                "ValueError: Pyramiding not allowed", FALSE)
                /\ UNCHANGED <<config, positions, pos_order, closed_positions,
                               trade_history>>
           ELSE /\ Commit(add_to_position(Ledger, symbol, additional_quantity,
                                          entry_price))
                /\ last' = Call("add", symbol, args, "Position", TRUE)
        /\ UNCHANGED <<next_id, pending>>

AddToPosition(symbol, additional_quantity, entry_price) ==
    LET args == [additional_quantity |-> additional_quantity,
                 entry_price |-> entry_price]
    IN  /\ Accepting
        /\ IF ~config.allow_pyramiding
           THEN /\ last' = Call("add", symbol, args,
                                "ValueError: Pyramiding not allowed", FALSE)
                /\ UNCHANGED <<config, positions, pos_order, closed_positions,
                               trade_history>>
           ELSE IF symbol \notin DOMAIN positions
           THEN /\ last' = Call("add", symbol, args,
                                "ValueError: No position found", FALSE)
                /\ UNCHANGED <<config, positions, pos_order, closed_positions,
                               trade_history>>
           ELSE /\ Commit(add_to_position(Ledger, symbol, additional_quantity,
                                          entry_price))
                /\ last' = Call("add", symbol, args, "Position", TRUE)
        /\ UNCHANGED <<next_id, pending>>

ReducePosition(symbol, reduce_quantity, exit_price, reason) ==
    LET args == [reduce_quantity |-> reduce_quantity, exit_price |-> exit_price,
                 reason |-> reason]
    IN  /\ Accepting
        /\ IF symbol \notin DOMAIN positions
           THEN /\ last' = Call("reduce", symbol, args,
                                "ValueError: No position found", FALSE)
                /\ UNCHANGED <<config, positions, pos_order, closed_positions,
                               trade_history>>
           ELSE /\ Commit(reduce_position(Ledger, symbol, reduce_quantity,
                                          exit_price, reason))
                /\ last' = Call("reduce", symbol, args, "tuple", TRUE)
        /\ UNCHANGED <<next_id, pending>>

UpdatePositions(current_prices) ==
    LET L == update_positions(Ledger, pos_order, current_prices)
    IN  /\ Accepting
        /\ Commit(L)
        /\ last' = Call("update", "", current_prices, "None", L # Ledger)
        /\ UNCHANGED <<next_id, pending>>

CheckInvalidationConditions(symbol, recent_candles) ==
    /\ Accepting
    /\ Commit(check_invalidation_conditions(Ledger, symbol, recent_candles))
    /\ last' = Call("check_invalidation", symbol, recent_candles,
                    InvalidationTriggered(Ledger, symbol, recent_candles),
                    InvalidationTriggered(Ledger, symbol, recent_candles))
    /\ UNCHANGED <<next_id, pending>>

CanOpenNewPosition(symbol, position_size_usd) ==
    /\ Running
    /\ last' = Call("can_open", symbol, position_size_usd,
                    can_open_new_position(config, Ledger, symbol, position_size_usd),
                    FALSE)
    /\ UNCHANGED <<config, positions, pos_order, closed_positions, trade_history,
                   next_id, pending>>

GetPortfolioSummary ==
    /\ Running
    /\ last' = Call("get_portfolio_summary", "", <<>>,
                    get_portfolio_summary(config, Ledger, analytics_closed_positions),
                    FALSE)
    /\ UNCHANGED <<config, positions, pos_order, closed_positions, trade_history,
                   next_id, pending>>

\* get_margin_status: the margin requirements of the live positions against
\* the current capital
GetMarginStatus ==
    /\ Running
    /\ last' = Call("check_margin_requirements", "",
                    [positions |-> get_open_positions(Ledger),
                     available_capital |-> config.current_capital],
                    check_margin_requirements(get_open_positions(Ledger),
                                              config.current_capital),
                    FALSE)
    /\ UNCHANGED <<config, positions, pos_order, closed_positions, trade_history,
                   next_id, pending>>

Next ==
    \/ \E symbol \in Symbols, side \in Sides, quantity \in Quantities,
          entry_price \in EntryPrices, bracket \in Brackets,
          leverage \in Leverages, confidence \in Confidences,
          risk_usd \in RiskUsds :
            \E ic \in RulesFor(side) :
                OpenPosition(symbol, side, R(quantity), R(entry_price),
                             R(bracket[2]), R(bracket[1]), ic, leverage,
                             confidence, risk_usd)
    \/ \E symbol \in Symbols, exit_price \in Prices, exit_reason \in ExitReasons :
            ClosePosition(symbol, R(exit_price), exit_reason)
    \/ \E symbol \in Symbols, additional_quantity \in Quantities, entry_price \in Prices :
            AddToPosition(symbol, R(additional_quantity), R(entry_price))
    \/ \E symbol \in Symbols, reduce_quantity \in Quantities, exit_price \in Prices :
            ReducePosition(symbol, R(reduce_quantity), R(exit_price), "partial_profit")
    \/ \E current_prices \in PriceMaps : UpdatePositions(current_prices)
    \/ \E symbol \in Symbols, recent_candles \in CandleLists :
            CheckInvalidationConditions(symbol, recent_candles)
    \/ \E symbol \in Symbols, position_size_usd \in Notionals :
            CanOpenNewPosition(symbol, R(position_size_usd))
    \/ GetPortfolioSummary
    \/ GetMarginStatus

Spec == Init /\ [][Next]_vars

----------------------------------------------------------------------------
(* InvalidationCondition.is_triggered on its own: every rule on every list *)

ConditionTypes == {"price_close_below", "price_close_above", "time_based"}

TriggerRules ==
    { InvalidationCondition(type, price, n) :
        type \in ConditionTypes, price \in {None, R(0), R(50000)},
        n \in 0..MaxRuleCandles }

TriggerCandleLists == SeqsUpTo({R(c) : c \in Prices}, MaxRuleCandles)

IsTriggered(ic, recent_candles) ==
    /\ Running
    /\ last' = Call("is_triggered", "", [ic |-> ic, recent_candles |-> recent_candles],
                    is_triggered(ic, recent_candles), FALSE)
    /\ UNCHANGED <<config, positions, pos_order, closed_positions, trade_history,
                   next_id, pending>>

NextTrigger ==
    \E ic \in TriggerRules, recent_candles \in TriggerCandleLists :
        IsTriggered(ic, recent_candles)

SpecTrigger == Init /\ [][NextTrigger]_vars

----------------------------------------------------------------------------
(* Opens and closes on one symbol slot, with every kind of input to open and
   a database that may fail *)

\* trades recorded before this session stops
MaxSlotTrades == 4

\* (entry_price, stop_loss) of an open: sound, no entry price, no stop price,
\* and a stop at the entry
SlotEntries == { <<50000, 49000>>, <<0, 49000>>, <<50000, 0>>, <<50000, 50000>> }

\* 0 is rejected by the Position model; 25 is accepted by it and is above
\* max_leverage
SlotLeverages == {0, 25}

SlotOpen(db, symbol, entry, leverage) ==
    /\ Running /\ Len(trade_history) < MaxSlotTrades
    /\ \E ic \in RulesFor("long") :
           OpenPositionCall(db, symbol, "long", R(1), R(entry[1]), R(51000),
                            R(entry[2]), ic, leverage, R(1), R(500))

SlotClose(db, symbol, exit_price) ==
    /\ Running /\ Len(trade_history) < MaxSlotTrades
    /\ ClosePositionCall(db, symbol, exit_price, "manual")

NextSlot ==
    \/ \E db \in DbOutcomes, entry \in SlotEntries, leverage \in SlotLeverages :
            SlotOpen(db, "BTC", entry, leverage)
    \/ \E db \in DbOutcomes : SlotClose(db, "BTC", R(50000))

SpecSlot == Init /\ [][NextSlot]_vars

----------------------------------------------------------------------------
(* The functions of the risk manager on their own: every function on every
   input of its domains *)

\* ratios given to calculate_take_profit_targets
MaxRatios == 4

\* prices: none, a negative one, and two price levels
RiskEntryPrices == {-1, 0, 100, 50000}
\* stops: invalid ones, and stops at and at several distances from each entry
RiskStopPrices == {-1, 0, 90, 100, 49200, 49500, 50000}
AvailableCapitals == {-1000, 0, 1000, 100000}
\* the default confidence and the lowest one of the high band
RiskConfidences == {Rat(1, 2), Rat(3, 4)}

\* ATR readings: atr3 / atr14 on, between and beyond the band limits 0.7, 0.9,
\* 1.1 and 1.3 when atr14 is 100
Atr3s == {0, 60, 70, 80, 90, 100, 110, 120, 130, 150}
Atr14s == {0, 100, 2000}
\* atr14 / entry_price: undefined, 2 % and 0.2 % for atr14 = 100, 40 % and 4 %
\* for atr14 = 2000
AtrEntryPrices == {0, 5000, 50000}
BaseQuantities == {Rat(1, 10), R(1)}
BaseLeverages == {3, 5, 10, 20, 40}

StopEntryPrices == {0, 50000}
StopAtr14s == {0, 200}
StopAtr3s == {None, R(0), R(150)}
RiskProfiles == {"conservative", "moderate", "aggressive", "scalping"}

TargetStops == {49000, 50000, 51000}
RewardRatios == {Rat(3, 2), R(2)}
RatioLists == SeqsUpTo(RewardRatios, MaxRatios)

CalculatePositionSize(entry_price, stop_loss_price, available_capital, confidence) ==
    /\ Running
    /\ last' = Call("calculate_position_size", "",
                    [entry_price |-> entry_price, stop_loss_price |-> stop_loss_price,
                     available_capital |-> available_capital, confidence |-> confidence],
                    calculate_position_size(config, entry_price, stop_loss_price,
                                            available_capital, confidence),
                    FALSE)
    /\ UNCHANGED <<config, positions, pos_order, closed_positions, trade_history,
                   next_id, pending>>

CalculateAtrBasedStopLoss(entry_price, atr14, atr3, side, risk_profile) ==
    /\ Running
    /\ last' = Call("calculate_atr_based_stop_loss", "",
                    [entry_price |-> entry_price, atr14 |-> atr14, atr3 |-> atr3,
                     side |-> side, risk_profile |-> risk_profile],
                    calculate_atr_based_stop_loss(entry_price, atr14, atr3, side, risk_profile),
                    FALSE)
    /\ UNCHANGED <<config, positions, pos_order, closed_positions, trade_history,
                   next_id, pending>>

AdjustPositionSizeForVolatility(base_position_size, atr3, atr14, entry_price) ==
    /\ Running
    /\ last' = Call("adjust_position_size_for_volatility", "",
                    [base_position_size |-> base_position_size, atr3 |-> atr3,
                     atr14 |-> atr14, entry_price |-> entry_price],
                    adjust_position_size_for_volatility(base_position_size, atr3, atr14,
                                                        entry_price),
                    FALSE)
    /\ UNCHANGED <<config, positions, pos_order, closed_positions, trade_history,
                   next_id, pending>>

GetVolatilityAdjustedLeverage(base_leverage, atr3, atr14, entry_price) ==
    /\ Running
    /\ last' = Call("get_volatility_adjusted_leverage", "",
                    [base_leverage |-> base_leverage, atr3 |-> atr3, atr14 |-> atr14,
                     entry_price |-> entry_price],
                    get_volatility_adjusted_leverage(base_leverage, atr3, atr14, entry_price),
                    FALSE)
    /\ UNCHANGED <<config, positions, pos_order, closed_positions, trade_history,
                   next_id, pending>>

CalculateTakeProfitTargets(entry_price, stop_loss, side, risk_reward_ratios) ==
    /\ Running
    /\ last' = Call("calculate_take_profit_targets", "",
                    [entry_price |-> entry_price, stop_loss |-> stop_loss, side |-> side,
                     risk_reward_ratios |-> risk_reward_ratios],
                    calculate_take_profit_targets(entry_price, stop_loss, side,
                                                  risk_reward_ratios),
                    FALSE)
    /\ UNCHANGED <<config, positions, pos_order, closed_positions, trade_history,
                   next_id, pending>>

NextRisk ==
    \/ \E entry_price \in RiskEntryPrices, stop_loss_price \in RiskStopPrices,
          available_capital \in AvailableCapitals, confidence \in RiskConfidences :
            CalculatePositionSize(R(entry_price), R(stop_loss_price),
                                  R(available_capital), confidence)
    \/ \E entry_price \in StopEntryPrices, atr14 \in StopAtr14s, atr3 \in StopAtr3s,
          side \in Sides, risk_profile \in RiskProfiles :
            CalculateAtrBasedStopLoss(R(entry_price), R(atr14), atr3, side, risk_profile)
    \/ \E base_position_size \in BaseQuantities, atr3 \in Atr3s, atr14 \in Atr14s,
          entry_price \in AtrEntryPrices :
            AdjustPositionSizeForVolatility(base_position_size, R(atr3), R(atr14),
                                            R(entry_price))
    \/ \E base_leverage \in BaseLeverages, atr3 \in Atr3s, atr14 \in Atr14s,
          entry_price \in AtrEntryPrices :
            GetVolatilityAdjustedLeverage(base_leverage, R(atr3), R(atr14),
                                          R(entry_price))
    \/ \E stop_loss \in TargetStops, side \in Sides, risk_reward_ratios \in RatioLists :
            CalculateTakeProfitTargets(R(50000), R(stop_loss), side, risk_reward_ratios)

SpecRisk == Init /\ [][NextRisk]_vars

----------------------------------------------------------------------------
(* The statistics, the drawdown and the margin status on their own: every
   function on every input of its domains *)

\* records of a closed history
MaxClosed == 3
\* values of an equity curve
MaxCurve == 4
\* positions given to check_margin_requirements
MaxOpen == 2

\* realized P&L of a record: losses, a flat trade and wins
RealizedPnls == {-1000, -500, 0, 1000, 2000}
ClosedLists == SeqsUpTo({[realized_pnl |-> R(p)] : p \in RealizedPnls}, MaxClosed)

\* equity: below zero, zero, and three levels above
EquityValues == {-100, 0, 50, 100, 200}
EquityCurves == SeqsUpTo({R(v) : v \in EquityValues}, MaxCurve)

\* live positions by notional and leverage: margins 5000 and 4000
MarginPositions ==
    { [notional_value |-> R(50000), leverage |-> 10],
      [notional_value |-> R(100000), leverage |-> 25] }
MarginPositionLists == SeqsUpTo(MarginPositions, MaxOpen)
\* capital left: overdrawn, none, and levels that put the margins 5000, 4000
\* and 9000 below, at and above 80 % and 90 % of it
MarginCapitals == {-4000, 0, 4000, 5000, 6000, 6250, 10000, 11250, 100000}

CalculateStatistics(closed) ==
    /\ Running
    /\ last' = Call("calculate_statistics", "", closed, calculate_statistics(closed),
                    FALSE)
    /\ UNCHANGED <<config, positions, pos_order, closed_positions, trade_history,
                   next_id, pending>>

CalculateMaxDrawdown(equity_curve) ==
    /\ Running
    /\ last' = Call("calculate_max_drawdown", "", equity_curve,
                    calculate_max_drawdown(equity_curve), FALSE)
    /\ UNCHANGED <<config, positions, pos_order, closed_positions, trade_history,
                   next_id, pending>>

CheckMarginRequirements(open_positions, available_capital) ==
    /\ Running
    /\ last' = Call("check_margin_requirements", "",
                    [positions |-> open_positions,
                     available_capital |-> available_capital],
                    check_margin_requirements(open_positions, available_capital),
                    FALSE)
    /\ UNCHANGED <<config, positions, pos_order, closed_positions, trade_history,
                   next_id, pending>>

NextAnalytics ==
    \/ \E closed \in ClosedLists : CalculateStatistics(closed)
    \/ \E equity_curve \in EquityCurves : CalculateMaxDrawdown(equity_curve)
    \/ \E open_positions \in MarginPositionLists, available_capital \in MarginCapitals :
            CheckMarginRequirements(open_positions, R(available_capital))

SpecAnalytics == Init /\ [][NextAnalytics]_vars

----------------------------------------------------------------------------
(* position_manager.py under the event loop: a task runs until it awaits a
   database write, and other tasks run while it is suspended there *)

MaxAsyncTrades == 5

\* list(self.positions.items()): the symbols with the Position objects they
\* were bound to when the loop started
SnapshotItems(L) ==
    [i \in 1..Len(L.pos_order) |->
        [symbol |-> L.pos_order[i], position |-> L.positions[L.pos_order[i]]]]

\* the item's Position object is the one the dict still holds
IsLive(L, item) ==
    /\ item.symbol \in DOMAIN L.positions
    /\ L.positions[item.symbol].position_id = item.position.position_id

\* the Position object of an item as it is now: the dict's when it is still
\* there, else as the close that removed it left it
ItemObject(L, item) == IF IsLive(L, item) THEN L.positions[item.symbol] ELSE item.position

\* the exits of a pass: the Position whose thresholds were hit (evaluated) and
\* the Position close_position found under its symbol (closed, 0 for none)
ExitOf(L, position, current_price) ==
    [ evaluated |-> position.position_id,
      closed    |-> IF position.symbol \in DOMAIN L.positions
                    THEN L.positions[position.symbol].position_id ELSE 0,
      reason    |-> IF StopLossHit(position, current_price)
                    THEN "stop_loss" ELSE "take_profit" ]

\* the loop of update_positions from one suspension to the next: it runs over
\* the items until close_position has changed the ledger and awaits its
\* database writes, or until the items are used up
RECURSIVE update_positions_segment(_, _, _, _)
update_positions_segment(L, items, current_prices, exits) ==
    IF items = <<>> THEN [ledger |-> L, items |-> <<>>, exits |-> exits]
    ELSE LET item == Head(items)
         IN  IF item.symbol \in DOMAIN current_prices
             THEN LET current_price == current_prices[item.symbol]
                      position == calculate_unrealized_pnl(ItemObject(L, item), current_price)
                      L1 == IF IsLive(L, item)
                            THEN [L EXCEPT !.positions[item.symbol] = position]
                            ELSE L
                      L2 == check_stop_loss_take_profit(L1, position, current_price)
                      hit == StopLossHit(position, current_price)
                                \/ TakeProfitHit(position, current_price)
                      exits1 == IF hit
                                THEN Append(exits, ExitOf(L1, position, current_price))
                                ELSE exits
                  IN  IF L2 # L1
                      THEN [ledger |-> L2, items |-> Tail(items), exits |-> exits1]
                      ELSE update_positions_segment(L2, Tail(items), current_prices, exits1)
             ELSE update_positions_segment(L, Tail(items), current_prices, exits)

\* the prices of a tick: at the stop loss or at the entry
AsyncPriceMaps == UNION { [D -> {R(49000), R(50000)}] : D \in SUBSET Symbols }

\* the stop losses of the opens: at the lower price of the ticks or below it
AsyncStops == { R(48000), R(49000) }

\* a task opens a position on a symbol without one
AsyncOpen(symbol, stop_loss) ==
    /\ Len(trade_history) < MaxAsyncTrades
    /\ symbol \notin DOMAIN positions
    /\ \E ic \in RulesFor("long") :
          OpenPositionCall("ok", symbol, "long", R(1), R(50000), R(51000), stop_loss,
                           ic, 10, R(1), R(500))

\* a task closes a symbol by hand
AsyncClose(symbol) ==
    /\ Len(trade_history) < MaxAsyncTrades
    /\ ClosePositionCall("ok", symbol, R(50000), "manual")

\* a task starts update_positions and runs to its first database write
StartUpdatePositions(current_prices) ==
    LET r == update_positions_segment(Ledger, SnapshotItems(Ledger), current_prices, <<>>)
    IN  /\ Len(trade_history) < MaxAsyncTrades
        /\ pending = <<>>
        /\ Commit(r.ledger)
        /\ pending' = IF r.items = <<>> THEN <<>>
                      ELSE [items |-> r.items, current_prices |-> current_prices]
        /\ last' = Call("update_positions", "", current_prices, r.exits, r.ledger # Ledger)
        /\ UNCHANGED next_id

\* the database writes of the suspended update_positions return and its loop
\* goes on to the next write
ResumeUpdatePositions ==
    /\ pending # <<>>
    /\ LET r == update_positions_segment(Ledger, pending.items, pending.current_prices, <<>>)
       IN  /\ Commit(r.ledger)
           /\ pending' = IF r.items = <<>> THEN <<>>
                         ELSE [items |-> r.items, current_prices |-> pending.current_prices]
           /\ last' = Call("update_positions", "", pending.current_prices, r.exits, r.ledger # Ledger)
    /\ UNCHANGED next_id

NextAsync ==
    \/ \E symbol \in Symbols, stop_loss \in AsyncStops : AsyncOpen(symbol, stop_loss)
    \/ \E symbol \in Symbols : AsyncClose(symbol)
    \/ \E current_prices \in AsyncPriceMaps : StartUpdatePositions(current_prices)
    \/ ResumeUpdatePositions

SpecAsync == Init /\ [][NextAsync]_vars

----------------------------------------------------------------------------
(* position_manager.py over a database whose writes may fail: every call that
   reaches its writes, with each outcome of them *)

MaxPersistTrades == 3

PersistOpen(db, symbol, quantity) ==
    /\ Len(trade_history) < MaxPersistTrades
    /\ symbol \notin DOMAIN positions
    /\ \E ic \in RulesFor("long") :
          OpenPositionCall(db, symbol, "long", quantity, R(50000), R(51000), R(49000),
                           ic, 10, R(1), R(500))

\* add_to_position past its two ValueError guards
PersistAdd(db, symbol, additional_quantity, entry_price) ==
    /\ Len(trade_history) < MaxPersistTrades
    /\ config.allow_pyramiding
    /\ symbol \in DOMAIN positions
    /\ Commit(add_to_position(Ledger, symbol, additional_quantity, entry_price))
    /\ last' = WithDb(Call("add", symbol,
                           [additional_quantity |-> additional_quantity,
                            entry_price |-> entry_price],
                           Returned("Position", db), TRUE), db)
    /\ UNCHANGED <<next_id, pending>>

\* reduce_position past its ValueError guard
PersistReduce(db, symbol, reduce_quantity, exit_price) ==
    /\ Len(trade_history) < MaxPersistTrades
    /\ symbol \in DOMAIN positions
    /\ Commit(reduce_position(Ledger, symbol, reduce_quantity, exit_price, "manual"))
    /\ last' = WithDb(Call("reduce", symbol,
                           [reduce_quantity |-> reduce_quantity,
                            exit_price |-> exit_price, reason |-> "manual"],
                           Returned("tuple", db), TRUE), db)
    /\ UNCHANGED <<next_id, pending>>

PersistClose(db, symbol, exit_price) ==
    /\ Len(trade_history) < MaxPersistTrades
    /\ symbol \in DOMAIN positions
    /\ ClosePositionCall(db, symbol, exit_price, "manual")

NextPersist ==
    \/ \E db \in DbOutcomes, quantity \in Quantities : PersistOpen(db, "BTC", R(quantity))
    \/ \E db \in DbOutcomes, quantity \in Quantities, price \in Prices :
            PersistAdd(db, "BTC", R(quantity), R(price))
    \/ \E db \in DbOutcomes, quantity \in Quantities, price \in Prices :
            PersistReduce(db, "BTC", R(quantity), R(price))
    \/ \E db \in DbOutcomes, price \in Prices : PersistClose(db, "BTC", R(price))

SpecPersist == Init /\ [][NextPersist]_vars

----------------------------------------------------------------------------
(* portfolio_manager.py, position_manager.py: a caller that opens a position
   only when can_open_new_position has admitted it *)

MaxGatedTrades == 4

\* the entry prices of the admitted opens: one unit is within and beyond the
\* size limit of 20% of 100000
GatedEntryPrices == {10000, 50000}

\* can_open_new_position and, on (True, "OK"), open_position for the same
\* symbol and quantity * entry_price, with nothing in between
AdmitThenOpen(symbol, quantity, entry_price) ==
    LET position_size_usd == RMul(quantity, entry_price)
        admitted == can_open_new_position(config, Ledger, symbol, position_size_usd)
    IN  /\ Len(trade_history) < MaxGatedTrades
        /\ IF admitted.ok
           THEN \E ic \in RulesFor("long") :
                   OpenPositionCall("ok", symbol, "long", quantity, entry_price,
                                    RAdd(entry_price, R(1000)),
                                    RSub(entry_price, R(1000)), ic, 10, R(1), R(500))
           ELSE /\ last' = Call("can_open", symbol, position_size_usd, admitted, FALSE)
                /\ UNCHANGED <<config, positions, pos_order, closed_positions,
                               trade_history, next_id, pending>>

GatedClose(symbol, exit_price) ==
    /\ Len(trade_history) < MaxGatedTrades
    /\ symbol \in DOMAIN positions
    /\ ClosePositionCall("ok", symbol, exit_price, "manual")

NextGated ==
    \/ \E symbol \in Symbols, entry_price \in GatedEntryPrices :
            AdmitThenOpen(symbol, R(1), R(entry_price))
    \/ \E symbol \in Symbols, exit_price \in Prices : GatedClose(symbol, R(exit_price))

SpecGated == Init /\ [][NextGated]_vars

----------------------------------------------------------------------------
(* Claims *)

Margin(position) == RDiv(position.notional_value, R(position.leverage))

LiveMargin(L) ==
    RSum([i \in 1..Len(L.pos_order) |-> Margin(L.positions[L.pos_order[i]])])

\* realized P&L credited to the capital so far: by full closes (the closed
\* history) and by partial reduces (the REDUCE trades)
RealizedCredited(L) ==
    RAdd(RSum([i \in 1..Len(L.closed_positions) |->
                  L.closed_positions[i].realized_pnl]),
         RSum([i \in 1..Len(L.trade_history) |->
                  IF L.trade_history[i].action = "REDUCE"
                  THEN L.trade_history[i].pnl ELSE R(0)]))

\* the ledger is as the last call found it
LedgerUnchanged == Ledger = last.before

\* C1: in every reachable state current_capital plus the margin
\* (notional_value / leverage) of the live positions equals the initial capital
\* plus all realized P&L credited so far.
C1_CapitalConservation ==
    RAdd(config.current_capital, LiveMargin(Ledger))
        = RAdd(config.initial_capital, RealizedCredited(Ledger))

\* C2: with pyramiding disabled, an open on a symbol that has a live position
\* fails: the live position is not replaced and the capital is not debited.
C2_OpenOnLiveSymbolFails ==
    ( /\ last.op = "open"
      /\ ~config.allow_pyramiding
      /\ last.symbol \in DOMAIN last.before.positions )
    => LedgerUnchanged

\* the closed history is that of the last call's start plus `added`
ClosedSince(added) == closed_positions = last.before.closed_positions \o added

\* the closed positions the last call appended
NewlyClosed ==
    SubSeq(closed_positions, Len(last.before.closed_positions) + 1,
           Len(closed_positions))

\* C3: a position opened on an empty slot and immediately closed at its entry
\* price realizes a P&L of 0 and returns current_capital to its value before
\* the open.
C3_RoundTripNoOp ==
    [][ ( /\ last.op = "open" /\ last.ret = "Position"
          /\ last.symbol \notin DOMAIN last.before.positions
          /\ last'.op = "close" /\ last'.symbol = last.symbol
          /\ last'.args.exit_price = last.args.entry_price )
        => ( /\ Len(closed_positions') = Len(closed_positions) + 1
             /\ closed_positions'[Len(closed_positions')].realized_pnl = R(0)
             /\ config'.current_capital = last.before.capital ) ]_vars

\* a session that opened a long of 1 at 50000 with leverage 10 and then closed it
\* at 50000
C3_Witness ==
    /\ last.op = "close"
    /\ Len(trade_history) = 2
    /\ trade_history[1].action = "OPEN" /\ trade_history[2].action = "CLOSE"
    /\ trade_history[1].position_id = trade_history[2].position_id
    /\ closed_positions[1].side = "long"
    /\ closed_positions[1].quantity = R(1)
    /\ closed_positions[1].entry_price = R(50000)
    /\ closed_positions[1].exit_price = R(50000)
    /\ last.before.positions[last.symbol].leverage = 10
    /\ closed_positions[1].realized_pnl = R(0)
    /\ config.current_capital = config.initial_capital

\* C4: close on a live position records realized P&L (exit - entry) x quantity
\* for a long and (entry - exit) x quantity for a short and P&L % = pnl / notional
\* x 100, credits notional / leverage + pnl to current_capital, removes the live
\* position and appends exactly one ClosedPosition.
C4_ClosePnl ==
    ( last.op = "close" /\ last.symbol \in DOMAIN last.before.positions )
    => LET p    == last.before.positions[last.symbol]
           exit == last.args.exit_price
           pnl  == IF p.side = "long"
                   THEN RMul(RSub(exit, p.entry_price), p.quantity)
                   ELSE RMul(RSub(p.entry_price, exit), p.quantity)
       IN  /\ Len(NewlyClosed) = 1
           /\ ClosedSince(NewlyClosed)
           /\ NewlyClosed[1].position_id = p.position_id
           /\ NewlyClosed[1].exit_price = exit
           /\ NewlyClosed[1].exit_reason = last.args.exit_reason
           /\ NewlyClosed[1].realized_pnl = pnl
           /\ NewlyClosed[1].realized_pnl_pct
                  = RMul(RDiv(pnl, p.notional_value), R(100))
           /\ config.current_capital
                  = RAdd(last.before.capital,
                         RAdd(RDiv(p.notional_value, R(p.leverage)), pnl))
           /\ DOMAIN positions = (DOMAIN last.before.positions) \ {last.symbol}

\* the close of a long of 1 from 50000 at 51000: P&L 1000, 2.0 %
C4_Witness ==
    /\ last.op = "close"
    /\ closed_positions # <<>>
    /\ LET c == closed_positions[Len(closed_positions)]
       IN  /\ c.symbol = last.symbol
           /\ c.side = "long" /\ c.quantity = R(1)
           /\ c.entry_price = R(50000) /\ c.exit_price = R(51000)
           /\ c.realized_pnl = R(1000) /\ c.realized_pnl_pct = R(2)

\* the two exit conditions of a mark, as the claim words them
StopCondition(p, price) ==
    IF p.side = "long" THEN RLe(price, p.stop_loss_price)
                       ELSE RGe(price, p.stop_loss_price)

TargetCondition(p, price) ==
    IF p.side = "long" THEN RGe(price, p.profit_target)
                       ELSE RLe(price, p.profit_target)

\* the closed positions the last call appended for position p
NewlyClosedOf(p) == SelectSeq(NewlyClosed, LAMBDA c : c.position_id = p.position_id)

ExitedBy(p, price, reason) ==
    /\ p.symbol \notin DOMAIN positions
    /\ Len(NewlyClosedOf(p)) = 1
    /\ NewlyClosedOf(p)[1].exit_reason = reason
    /\ NewlyClosedOf(p)[1].exit_price = price

\* C5: a mark evaluates, for each live position with a price, the stop loss and
\* then the take profit: a tick that meets the stop-loss condition closes the
\* position with reason stop_loss even if it meets the take-profit condition
\* too, take_profit fires only when the stop loss does not, and at most one
\* exit fires per position.
C5_StopLossFirst ==
    last.op = "update"
    => /\ ClosedSince(NewlyClosed)
       /\ \A s \in (DOMAIN last.before.positions) \cap (DOMAIN last.args) :
            LET p     == last.before.positions[s]
                price == last.args[s]
            IN  IF StopCondition(p, price)
                THEN ExitedBy(p, price, "stop_loss")
                ELSE IF TargetCondition(p, price)
                THEN ExitedBy(p, price, "take_profit")
                ELSE s \in DOMAIN positions /\ NewlyClosedOf(p) = <<>>

\* a mark whose tick met both conditions of a position and closed it by its
\* stop loss
C5_Witness ==
    /\ last.op = "update"
    /\ \E s \in (DOMAIN last.before.positions) \cap (DOMAIN last.args) :
         LET p == last.before.positions[s]
         IN  /\ StopCondition(p, last.args[s])
             /\ TargetCondition(p, last.args[s])
             /\ ExitedBy(p, last.args[s], "stop_loss")

PriceRuleEvaluated ==
    /\ last.op = "is_triggered"
    /\ last.args.ic.condition_type \in {"price_close_below", "price_close_above"}
    /\ last.args.ic.trigger_price # None

\* at least N candles were supplied and each of the last N closes is strictly
\* beyond the trigger price, on the rule's side of it
LastNBeyond ==
    LET ic      == last.args.ic
        candles == last.args.recent_candles
        n       == ic.candle_closes
        len     == Len(candles)
        beyond(close) == IF ic.condition_type = "price_close_below"
                         THEN RLt(close, ic.trigger_price)
                         ELSE RGt(close, ic.trigger_price)
    IN  /\ len >= n
        /\ \A i \in (len - n + 1)..len : beyond(candles[i])

\* C7 (as stated): a price_close_below X (price_close_above X) rule with candle
\* count N is triggered if and only if at least N candles are supplied and each
\* of the last N closes is strictly below (above) X.
C7_TriggeredIffLastNBeyond ==
    PriceRuleEvaluated => (last.ret = LastNBeyond)

\* C7 (amended): the same equivalence for a rule whose trigger price X is not
\* zero and whose candle count N is at least 1.
C7_TriggeredIffLastNBeyondNonZero ==
    ( /\ PriceRuleEvaluated
      /\ last.args.ic.trigger_price # R(0)
      /\ last.args.ic.candle_closes >= 1 )
    => (last.ret = LastNBeyond)

\* a 3-close-below-50000 rule triggered by three closes of 49000
C7_Witness ==
    /\ last.op = "is_triggered"
    /\ last.args.ic = InvalidationCondition("price_close_below", R(50000), 3)
    /\ last.args.recent_candles = <<R(49000), R(49000), R(49000)>>
    /\ last.ret = TRUE

\* C8: an invalidation check whose rule is triggered closes the position with
\* reason invalidation_triggered at the latest candle close and returns true;
\* otherwise (rule not triggered, or no live position) it returns false and
\* leaves positions, closed history and capital unchanged.
C8_InvalidationCloses ==
    last.op = "check_invalidation"
    => LET s       == last.symbol
           candles == last.args
           live    == s \in DOMAIN last.before.positions
       IN  IF live /\ is_triggered(last.before.positions[s].invalidation_condition,
                                   candles)
           THEN /\ last.ret = TRUE
                /\ ExitedBy(last.before.positions[s], candles[Len(candles)],
                            "invalidation_triggered")
                /\ Len(NewlyClosed) = 1
                /\ ClosedSince(NewlyClosed)
           ELSE /\ last.ret = FALSE
                /\ LedgerUnchanged

\* a check that closed a position at the latest of two different closes
C8_Witness ==
    /\ last.op = "check_invalidation"
    /\ last.ret = TRUE
    /\ Len(last.args) = 2 /\ last.args[1] # last.args[2]
    /\ closed_positions[Len(closed_positions)].exit_reason = "invalidation_triggered"
    /\ closed_positions[Len(closed_positions)].exit_price = last.args[2]

\* the checks of canOpen, as the claims word them
CountOk == Cardinality(DOMAIN positions) < config.max_concurrent_positions

SizeOk(n) == RLe(n, RMul(config.current_capital, config.max_position_size_pct))

CapitalOk(n) == RLe(n, config.current_capital)

ExistingExposure ==
    RSum([i \in 1..Len(pos_order) |-> positions[pos_order[i]].notional_value])

\* the exposure ratio; zero when there is neither capital nor exposure
ExposureRatio(n) ==
    IF RAdd(config.current_capital, ExistingExposure) = R(0)
    THEN R(0)
    ELSE RDiv(RAdd(ExistingExposure, n), RAdd(config.current_capital, ExistingExposure))

ExposureOk(n) == RLe(ExposureRatio(n), config.max_total_exposure_pct)

SymbolOk(symbol) == symbol \notin DOMAIN positions \/ config.allow_pyramiding

\* C9: canOpen returns false whenever the notional exceeds
\* availableCapital x maxPositionSizePct, whatever the other checks say.
C9_OversizeRejected ==
    ( last.op = "can_open" /\ ~SizeOk(last.args) ) => ~last.ret.ok

\* an oversized notional that passes every other check and is rejected
C9_Witness ==
    /\ last.op = "can_open"
    /\ ~SizeOk(last.args)
    /\ CountOk /\ CapitalOk(last.args) /\ ExposureOk(last.args)
    /\ SymbolOk(last.symbol)
    /\ ~last.ret.ok

\* C10: canOpen checks, in this order, the number of positions, the size limit,
\* the available capital, the total exposure and the symbol; it returns the
\* reason of the first check that fails, and (true, "OK") if and only if all
\* five pass.
C10_FirstFailingCheck ==
    last.op = "can_open"
    => LET n == last.args
       IN  /\ last.ret.reason =
                IF ~CountOk THEN "Max positions reached"
                ELSE IF ~SizeOk(n) THEN "Position size exceeds limit"
                ELSE IF ~CapitalOk(n) THEN "Insufficient capital"
                ELSE IF ~ExposureOk(n) THEN "Total exposure exceeds limit"
                ELSE IF ~SymbolOk(last.symbol) THEN "Already have position"
                ELSE "OK"
           /\ last.ret.ok = ( /\ CountOk /\ SizeOk(n) /\ CapitalOk(n)
                              /\ ExposureOk(n) /\ SymbolOk(last.symbol) )
           /\ last.ret.ok = (last.ret.reason = "OK")

\* C11: no arithmetic operation of the core raises on a zero denominator; in
\* particular canOpen returns a result when availableCapital + existingExposure
\* is zero.
C11_NoZeroDenominatorRaise ==
    last.op = "can_open" => last.ret.reason # "raise ZeroDivisionError"

\* C12: a reduce on a live position by at least the live quantity behaves
\* exactly as close(symbol, exitPrice, reason): the position is removed and one
\* ClosedPosition appended; a reduce by less credits qty x entry / leverage plus
\* the proportional P&L, decreases the quantity by qty, sets the notional to the
\* remaining quantity x entry, keeps the position live and appends no
\* ClosedPosition.
C12_ReduceClosesOrShrinks ==
    ( last.op = "reduce" /\ last.symbol \in DOMAIN last.before.positions )
    => LET s   == last.symbol
           p   == last.before.positions[s]
           qty == last.args.reduce_quantity
           pnl == IF p.side = "long"
                  THEN RMul(RSub(last.args.exit_price, p.entry_price), qty)
                  ELSE RMul(RSub(p.entry_price, last.args.exit_price), qty)
       IN  IF RGe(qty, p.quantity)
           THEN /\ Ledger = close_position(last.before, s, last.args.exit_price,
                                           last.args.reason)
                /\ s \notin DOMAIN positions
                /\ Len(NewlyClosed) = 1
                /\ ClosedSince(NewlyClosed)
                /\ NewlyClosed[1].position_id = p.position_id
           ELSE /\ config.current_capital
                      = RAdd(last.before.capital,
                             RAdd(RDiv(RMul(qty, p.entry_price), R(p.leverage)), pnl))
                /\ s \in DOMAIN positions
                /\ positions[s].position_id = p.position_id
                /\ positions[s].quantity = RSub(p.quantity, qty)
                /\ positions[s].notional_value
                      = RMul(RSub(p.quantity, qty), p.entry_price)
                /\ positions[s].entry_price = p.entry_price
                /\ closed_positions = last.before.closed_positions

\* a short of 2 from 50000 reduced by 1 at 49000: 1 stays live, 1000 realized
C12_Witness ==
    /\ last.op = "reduce"
    /\ last.symbol \in DOMAIN last.before.positions
    /\ last.before.positions[last.symbol].side = "short"
    /\ last.before.positions[last.symbol].quantity = R(2)
    /\ last.args.reduce_quantity = R(1)
    /\ last.args.exit_price = R(49000)
    /\ last.symbol \in DOMAIN positions
    /\ positions[last.symbol].quantity = R(1)
    /\ config.current_capital = RAdd(last.before.capital, R(6000))

\* C13: an add fails with NotAllowed (ValueError "Pyramiding not allowed")
\* whenever pyramiding is disabled, whether or not the symbol has a live
\* position, and with NotFound (ValueError "No position found") when pyramiding
\* is enabled and the symbol has no live position; either failure leaves
\* positions, current_capital, closed history and trade history unchanged.
C13_AddFailures ==
    last.op = "add"
    => /\ ~config.allow_pyramiding
            => ( /\ last.ret = "ValueError: Pyramiding not allowed"
                 /\ LedgerUnchanged )
       /\ ( config.allow_pyramiding /\ last.symbol \notin DOMAIN last.before.positions )
            => ( /\ last.ret = "ValueError: No position found"
                 /\ LedgerUnchanged )

\* an add with pyramiding disabled on a symbol without a live position
C13_Witness ==
    /\ last.op = "add"
    /\ ~config.allow_pyramiding
    /\ last.symbol \notin DOMAIN last.before.positions
    /\ last.ret = "ValueError: Pyramiding not allowed"
    /\ last.before.positions # <<>>

\* C14: a successful add sets the quantity to oldQty + extraQty, the entry price
\* to (oldQty x oldEntry + extraQty x price) / (oldQty + extraQty), the notional
\* to new quantity x new entry, and debits extraQty x price / leverage from
\* current_capital, so that notional / leverage of the position grows by exactly
\* the margin debited.
C14_AddAverages ==
    ( last.op = "add" /\ last.ret = "Position" )
    => LET s     == last.symbol
           old   == last.before.positions[s]
           new   == positions[s]
           extra == last.args.additional_quantity
           price == last.args.entry_price
           debit == RDiv(RMul(extra, price), R(old.leverage))
       IN  /\ new.quantity = RAdd(old.quantity, extra)
           /\ new.entry_price
                  = RDiv(RAdd(RMul(old.quantity, old.entry_price), RMul(extra, price)),
                         RAdd(old.quantity, extra))
           /\ new.notional_value = RMul(new.quantity, new.entry_price)
           /\ new.leverage = old.leverage
           /\ config.current_capital = RSub(last.before.capital, debit)
           /\ RDiv(new.notional_value, R(new.leverage))
                  = RAdd(RDiv(old.notional_value, R(old.leverage)), debit)

\* 1 at 51000 added to 1 held from 50000: 2 at 50500, margin 5100 debited
C14_Witness ==
    /\ last.op = "add" /\ last.ret = "Position"
    /\ last.before.positions[last.symbol].quantity = R(1)
    /\ last.before.positions[last.symbol].entry_price = R(50000)
    /\ last.args.additional_quantity = R(1)
    /\ last.args.entry_price = R(51000)
    /\ positions[last.symbol].quantity = R(2)
    /\ positions[last.symbol].entry_price = R(50500)
    /\ positions[last.symbol].notional_value = R(101000)
    /\ config.current_capital = RSub(last.before.capital, R(5100))

\* C15: in every reachable state every live position has quantity > 0, the
\* quantities passed to open, add and reduce being positive.
C15_LiveQuantityPositive ==
    \A s \in DOMAIN positions : RGt(positions[s].quantity, R(0))

\* a reduce by exactly the live quantity: the position is closed, not kept
\* with quantity 0
C15_Witness ==
    /\ last.op = "reduce"
    /\ last.symbol \in DOMAIN last.before.positions
    /\ last.args.reduce_quantity = last.before.positions[last.symbol].quantity
    /\ last.symbol \notin DOMAIN positions

\* C16: in every reachable state every live position satisfies
\* 1 <= leverage <= max_leverage of the session.
C16_LeverageWithinSession ==
    \A s \in DOMAIN positions :
        /\ positions[s].leverage >= 1
        /\ positions[s].leverage <= config.max_leverage

\* C17: an open with entry price <= 0, stop price <= 0 or stop price equal to
\* the entry price is rejected before any mutation: no position is created and
\* current_capital, closed history and trade history are unchanged.
C17_InvalidOpenRejected ==
    ( /\ last.op = "open"
      /\ \/ RLe(last.args.entry_price, R(0))
         \/ RLe(last.args.stop_loss, R(0))
         \/ last.args.stop_loss = last.args.entry_price )
    => ( /\ last.ret # "Position"
         /\ LedgerUnchanged )

\* the exit reasons of the ClosedPosition model
ExitReasonsOfModel ==
    {"stop_loss", "take_profit", "invalidation_triggered", "manual", "signal_reverse"}

\* C18: every ClosedPosition of the closed history has an exit reason in
\* {stop_loss, take_profit, invalidation_triggered, manual, signal_reverse}.
C18_ExitReasonKnown ==
    \A i \in 1..Len(closed_positions) :
        closed_positions[i].exit_reason \in ExitReasonsOfModel

\* the ids of the closed history and of the live positions
ClosedIds(closed) == { closed[i].position_id : i \in 1..Len(closed) }

LiveIds(live) == { live[s].position_id : s \in DOMAIN live }

\* C19: the closed history is append-only and Closed is terminal: a step keeps
\* every ClosedPosition as it is, a close of a live position appends exactly
\* one, an open appends none, and no id of the closed history is the id of a
\* live position (an open after a close creates a position with a new id).
C19_ClosedIsTerminal ==
    [][ /\ Len(closed_positions') >= Len(closed_positions)
        /\ SubSeq(closed_positions', 1, Len(closed_positions)) = closed_positions
        /\ Len(closed_positions') - Len(closed_positions)
               = IF last'.op = "close" /\ last'.symbol \in DOMAIN positions
                 THEN 1 ELSE 0
        /\ ClosedIds(closed_positions') \cap LiveIds(positions') = {} ]_vars

\* a position closed, then a position opened on the same symbol, then closed
\* too: two entries of the history with different ids
C19_Witness ==
    /\ Len(closed_positions) = 2
    /\ closed_positions[1].symbol = closed_positions[2].symbol
    /\ closed_positions[1].position_id # closed_positions[2].position_id
    /\ Len(trade_history) = 4
    /\ trade_history[2].action = "CLOSE" /\ trade_history[3].action = "OPEN"

\* C20: a persistence failure during an open or a close that reached its
\* database writes is propagated to the caller as a failure.
C20_PersistenceFailurePropagated ==
    ( /\ last.op \in {"open", "close"}
      /\ last.ret \notin {"ValidationError", "None"}
      /\ last.db # "ok" )
    => last.ret = "raise sqlite3.Error"

----------------------------------------------------------------------------
\* C21: the statistics merged into a snapshot are those of the ledger's closed
\* history: total_trades is the number of its ClosedPositions, and winning_trades
\* and losing_trades count its records with a positive and a negative
\* realized_pnl.
C21_StatisticsOfLedgerHistory ==
    last.op = "get_portfolio_summary" =>
        /\ last.ret.total_trades = Len(closed_positions)
        /\ last.ret.winning_trades =
               Cardinality({i \in 1..Len(closed_positions) :
                                RGt(closed_positions[i].realized_pnl, R(0))})
        /\ last.ret.losing_trades =
               Cardinality({i \in 1..Len(closed_positions) :
                                RLt(closed_positions[i].realized_pnl, R(0))})

\* the sum of a field over the live positions
SumLive(field) == RSum([i \in 1..Len(pos_order) |-> positions[pos_order[i]][field]])

\* the sum of realized_pnl over the closed history
SumClosedRealized ==
    RSum([i \in 1..Len(closed_positions) |-> closed_positions[i].realized_pnl])

----------------------------------------------------------------------------
\* the arguments and the result of the last call of a risk function
SizingCall == last.op = "calculate_position_size"
Failed(ret) == "error" \in DOMAIN ret

\* C23: calculate_position_size reports an error and no positive quantity
\* whenever the entry price is <= 0, the stop price is <= 0, or the two are
\* equal, whatever the available capital and the session configuration.
C23_InvalidPricesFail ==
    SizingCall /\ ( \/ RLe(last.args.entry_price, R(0))
                    \/ RLe(last.args.stop_loss_price, R(0))
                    \/ last.args.entry_price = last.args.stop_loss_price )
        => /\ Failed(last.ret)
           /\ ~RGt(last.ret.quantity, R(0))

\* a sizing with both prices positive and the stop at the entry
C23_Witness ==
    /\ SizingCall
    /\ RGt(last.args.entry_price, R(0))
    /\ last.args.entry_price = last.args.stop_loss_price
    /\ RGt(last.args.available_capital, R(0))
    /\ last.ret.error = "Invalid stop loss"

\* the inputs the sizing accepts
ValidSizing ==
    /\ SizingCall
    /\ RGt(last.args.entry_price, R(0))
    /\ RGt(last.args.stop_loss_price, R(0))
    /\ last.args.entry_price # last.args.stop_loss_price
    /\ RGe(last.args.available_capital, R(0))

RiskBudget == RMul(last.args.available_capital, config.risk_per_trade_pct)
StopDistance == RAbs(RSub(last.args.entry_price, last.args.stop_loss_price))
\* min(available x max_position_size_pct, available)
NotionalLimit ==
    RMin(RMul(last.args.available_capital, config.max_position_size_pct),
         last.args.available_capital)

\* C24: for an entry > 0, a stop > 0 different from the entry and an available
\* capital >= 0, calculate_position_size returns quantity = risk budget /
\* |entry - stop| (risk budget = available x risk_per_trade_pct) unless a clamp
\* applies; the notional is at most min(available x max_position_size_pct,
\* available) and equals quantity x entry; the actual risk equals quantity x
\* |entry - stop| and is at most the risk budget.
C24_SizeByRisk ==
    ValidSizing =>
        /\ ~Failed(last.ret)
        /\ RLe(last.ret.notional_value, NotionalLimit)
        /\ last.ret.notional_value = RMul(last.ret.quantity, last.args.entry_price)
        /\ last.ret.actual_risk_amount = RMul(last.ret.quantity, StopDistance)
        /\ RLe(last.ret.actual_risk_amount, RiskBudget)
        /\ ( RLe(RMul(RDiv(RiskBudget, StopDistance), last.args.entry_price),
                 NotionalLimit)
             => last.ret.quantity = RDiv(RiskBudget, StopDistance) )

\* a sizing that the size limit clamps and one more that the capital clamps
C24_Witness ==
    /\ ValidSizing
    /\ RGt(last.args.available_capital, R(0))
    /\ RGt(RMul(RDiv(RiskBudget, StopDistance), last.args.entry_price),
           RMul(last.args.available_capital, config.max_position_size_pct))
    /\ RGt(config.max_position_size_pct, R(1))
    /\ last.ret.notional_value = last.args.available_capital

----------------------------------------------------------------------------
LeverageCall == last.op = "get_volatility_adjusted_leverage"

\* C25: for every base leverage and every ATR and price input with atr14 # 0,
\* get_volatility_adjusted_leverage returns a leverage of at least 5 and at
\* most the max_leverage of the session.
C25_LeverageWithinSessionRange ==
    LeverageCall /\ last.args.atr14 # R(0) =>
        /\ last.ret.adjusted_leverage >= 5
        /\ last.ret.adjusted_leverage <= config.max_leverage

\* atr3 / atr14 of the call, atr14 not being 0
ArgRatio == RDiv(last.args.atr3, last.args.atr14)
\* atr14 as a percentage of the entry price; 0 without an entry price
ArgPct ==
    IF RGt(last.args.entry_price, R(0))
    THEN RMul(RDiv(last.args.atr14, last.args.entry_price), R(100))
    ELSE R(0)

\* the whole part of n x num / den, n >= 0
Scaled(n, num, den) == (n * num) \div den

\* C26: the band limits of the leverage adjustment are strict.  With atr3 /
\* atr14 exactly 1.1 and atr14 / entry not above 2 % the 0.8x band is not
\* applied and the base leverage is returned unchanged; with atr3 / atr14
\* exactly 1.3 and atr14 / entry not above 3 % the result is that of the 0.8x
\* band, max(5, int(base x 0.8)), not that of the 0.6x band.
C26_StrictBandLimits ==
    LeverageCall /\ last.args.atr14 # R(0) =>
        /\ ( ArgRatio = Rat(11, 10) /\ RLe(ArgPct, R(2))
             => /\ last.ret.adjusted_leverage = last.args.base_leverage
                /\ last.ret.reason = "Normal volatility - base leverage maintained" )
        /\ ( ArgRatio = Rat(13, 10) /\ RLe(ArgPct, R(3))
             => /\ last.ret.adjusted_leverage =
                       Max(5, Scaled(last.args.base_leverage, 8, 10))
                /\ last.ret.reason = "Elevated volatility - leverage reduced moderately" )

\* a call on the limit 1.3 whose 0.8x and 0.6x results differ
C26_Witness ==
    /\ LeverageCall
    /\ last.args.atr14 # R(0)
    /\ ArgRatio = Rat(13, 10)
    /\ RLe(ArgPct, R(3))
    /\ last.args.base_leverage = 20
    /\ last.ret.adjusted_leverage = 16

----------------------------------------------------------------------------
SizeAdjustCall == last.op = "adjust_position_size_for_volatility"

\* the factor of the band of atr3 / atr14
BandFactor(ratio) ==
    CASE RGt(ratio, Rat(13, 10)) -> Rat(6, 10)
      [] RLe(ratio, Rat(13, 10)) /\ RGt(ratio, Rat(11, 10)) -> Rat(8, 10)
      [] RLt(ratio, Rat(7, 10)) -> Rat(12, 10)
      [] RGe(ratio, Rat(7, 10)) /\ RLt(ratio, Rat(9, 10)) -> Rat(11, 10)
      [] OTHER -> R(1)

\* the correction for atr14 as a percentage of the entry price
LevelFactor(pct) ==
    IF RGt(pct, R(3)) THEN Rat(8, 10)
    ELSE IF RLt(pct, R(1)) THEN Rat(11, 10)
    ELSE R(1)

\* C27: adjust_position_size_for_volatility takes the factor of the band of
\* atr3 / atr14 (> 1.3: 0.6, > 1.1: 0.8, < 0.7: 1.2, < 0.9: 1.1, else 1.0),
\* multiplies it by 0.8 when atr14 / entry is above 3 % and by 1.1 when it is
\* below 1 % (an entry price of 0 counting as 0 %); the factor lies in
\* [0.3, 1.5] and the adjusted quantity is base x factor.  With atr14 = 0 it
\* returns the base quantity, factor 1.0 and state "unknown".
C27_SizeAdjustment ==
    SizeAdjustCall =>
        IF last.args.atr14 = R(0)
        THEN /\ last.ret.adjusted_quantity = last.args.base_position_size
             /\ last.ret.adjustment_factor = R(1)
             /\ last.ret.volatility_state = "unknown"
        ELSE /\ last.ret.adjustment_factor =
                    RMul(BandFactor(ArgRatio), LevelFactor(ArgPct))
             /\ RGe(last.ret.adjustment_factor, Rat(3, 10))
             /\ RLe(last.ret.adjustment_factor, Rat(15, 10))
             /\ last.ret.adjusted_quantity =
                    RMul(last.args.base_position_size, last.ret.adjustment_factor)

\* an adjustment in the 1.2 band with atr14 above 3 % of the entry
C27_Witness ==
    /\ SizeAdjustCall
    /\ last.args.atr14 # R(0)
    /\ RLt(ArgRatio, Rat(7, 10))
    /\ RGt(ArgPct, R(3))
    /\ last.ret.adjustment_factor = Rat(96, 100)

\* the call of the example: base 0.1, atr3 150, atr14 100, entry 50000
ExampleSizeAdjustCall ==
    /\ SizeAdjustCall
    /\ last.args.base_position_size = Rat(1, 10)
    /\ last.args.atr3 = R(150)
    /\ last.args.atr14 = R(100)
    /\ last.args.entry_price = R(50000)

\* C28 as stated: the example returns factor 0.6, no correction for the level
\* of atr14 being applied, and quantity 0.06.
C28_ExampleFactor ==
    ExampleSizeAdjustCall =>
        /\ last.ret.adjustment_factor = Rat(6, 10)
        /\ last.ret.adjusted_quantity = Rat(6, 100)

\* C28: adjust_position_size_for_volatility with base 0.1, atr3 150, atr14 100
\* and entry 50000 is in the band above 1.3 (0.6) and, atr14 being 0.2 % of the
\* entry, is multiplied by 1.1: it returns factor 0.66 and quantity 0.066.
C28_ExampleFactorWithLevel ==
    ExampleSizeAdjustCall =>
        /\ last.ret.volatility_state = "rapidly_expanding"
        /\ last.ret.atr_pct = Rat(2, 10)
        /\ last.ret.adjustment_factor = Rat(66, 100)
        /\ last.ret.adjusted_quantity = Rat(66, 1000)

C28_Witness ==
    /\ ExampleSizeAdjustCall
    /\ last.ret.atr_ratio = Rat(15, 10)
    /\ RLt(last.ret.atr_pct, R(1))

----------------------------------------------------------------------------
StopCall == last.op = "calculate_atr_based_stop_loss"

\* the stop and the risk percentage that go with a distance
StopPlaced(distance) ==
    /\ last.ret.stop_distance = distance
    /\ last.ret.stop_price = IF last.args.side = "long"
                             THEN RSub(last.args.entry_price, distance)
                             ELSE RAdd(last.args.entry_price, distance)

\* the example: moderate, long, entry 50000, atr14 200, atr3 150
StopExample ==
    /\ last.args.risk_profile = "moderate" /\ last.args.side = "long"
    /\ last.args.entry_price = R(50000)
    /\ last.args.atr14 = R(200) /\ last.args.atr3 = R(150)
    => last.ret.stop_price = R(49600) /\ last.ret.risk_pct = Rat(8, 10)

\* C29 as stated: the distance is 2.5 x ATR14 for conservative, 2.0 x ATR14 for
\* moderate and 1.5 x ATR3 for aggressive, the stop is entry - distance for a
\* long and entry + distance for a short, and the risk percentage is distance /
\* entry x 100 (for the three profiles, an ATR3 that is given and an entry
\* price above 0).
C29_AtrStop ==
    /\ StopCall
    /\ last.args.risk_profile \in {"conservative", "moderate", "aggressive"}
    /\ last.args.atr3 # None
    /\ RGt(last.args.entry_price, R(0))
    => /\ StopPlaced(CASE last.args.risk_profile = "conservative" ->
                              RMul(Rat(25, 10), last.args.atr14)
                       [] last.args.risk_profile = "moderate" ->
                              RMul(R(2), last.args.atr14)
                       [] last.args.risk_profile = "aggressive" ->
                              RMul(Rat(15, 10), last.args.atr3))
       /\ last.ret.risk_pct =
              RMul(RDiv(last.ret.stop_distance, last.args.entry_price), R(100))
       /\ StopExample

\* C29: the distance is 2.5 x ATR14 for conservative, 2.0 x ATR14 for moderate
\* and for a profile of any other name, and for aggressive 1.5 x ATR3 when ATR3
\* is given and not 0, 1.5 x ATR14 otherwise; the stop is entry - distance for
\* a long and entry + distance for a short; the risk percentage is distance /
\* entry x 100 for an entry above 0 and 0 otherwise.
C29_AtrStopWithFallback ==
    StopCall =>
        /\ StopPlaced(CASE last.args.risk_profile = "conservative" ->
                               RMul(Rat(25, 10), last.args.atr14)
                        [] last.args.risk_profile = "aggressive" ->
                               IF last.args.atr3 # None /\ last.args.atr3 # R(0)
                               THEN RMul(Rat(15, 10), last.args.atr3)
                               ELSE RMul(Rat(15, 10), last.args.atr14)
                        [] OTHER -> RMul(R(2), last.args.atr14))
        /\ last.ret.risk_pct =
               IF RGt(last.args.entry_price, R(0))
               THEN RMul(RDiv(last.ret.stop_distance, last.args.entry_price), R(100))
               ELSE R(0)
        /\ StopExample

\* an aggressive stop with an ATR3 of 0: the distance is that of ATR14
C29_Witness ==
    /\ StopCall
    /\ last.args.risk_profile = "aggressive"
    /\ last.args.atr3 = R(0)
    /\ last.args.atr14 = R(200)
    /\ last.args.entry_price = R(50000)
    /\ last.args.side = "short"
    /\ last.ret.stop_price = R(50300)

----------------------------------------------------------------------------
TargetCall == last.op = "calculate_take_profit_targets"

RECURSIVE SumPct(_)
SumPct(targets) ==
    IF targets = <<>> THEN 0 ELSE Head(targets).qty_pct + SumPct(Tail(targets))

\* C30: calculate_take_profit_targets returns one target for each of the first
\* three ratios at most, the i-th at entry + |entry - stop| x ratio for a long
\* and entry - |entry - stop| x ratio for a short, with 50, 30 and 20 per cent
\* of the quantity in this order; the percentages of the targets returned sum
\* to at most 100 whatever the list of ratios.
C30_TakeProfitLadder ==
    TargetCall =>
        LET ratios == last.args.risk_reward_ratios
            risk   == RAbs(RSub(last.args.entry_price, last.args.stop_loss))
        IN  /\ Len(last.ret) = IF Len(ratios) < 3 THEN Len(ratios) ELSE 3
            /\ \A i \in 1..Len(last.ret) :
                   /\ last.ret[i].price =
                          IF last.args.side = "long"
                          THEN RAdd(last.args.entry_price, RMul(risk, ratios[i]))
                          ELSE RSub(last.args.entry_price, RMul(risk, ratios[i]))
                   /\ last.ret[i].qty_pct = <<50, 30, 20>>[i]
            /\ SumPct(last.ret) <= 100

\* four ratios given for a long with the stop 1000 below the entry: three
\* targets, the third at the third ratio
C30_Witness ==
    /\ TargetCall
    /\ Len(last.args.risk_reward_ratios) = 4
    /\ last.args.side = "long"
    /\ last.args.stop_loss = R(49000)
    /\ Len(last.ret) = 3
    /\ last.ret[3].price = RAdd(R(50000), RMul(R(1000), last.args.risk_reward_ratios[3]))
    /\ SumPct(last.ret) = 100

----------------------------------------------------------------------------
StatisticsCall == last.op = "calculate_statistics"

\* the realized P&L of the records of closed that are wins (sign 1) or losses
\* (sign -1), 0 standing for every other record
SignedPnls(closed, sign) ==
    [i \in 1..Len(closed) |->
        IF RGt(RMul(R(sign), closed[i].realized_pnl), R(0))
        THEN closed[i].realized_pnl ELSE R(0)]

CountSigned(closed, sign) ==
    Cardinality({i \in 1..Len(closed) : RGt(RMul(R(sign), closed[i].realized_pnl), R(0))})

\* C31: over any closed history, win_rate is the number of records with
\* realized_pnl > 0 divided by the number of records, profit_factor is the sum
\* of the winning P&L over the absolute sum of the losing P&L and is 0 when
\* there is no losing trade; with an empty history every statistic is 0.
C31_TradeStatistics ==
    StatisticsCall =>
        LET closed == last.args
            stats  == last.ret
        IN  IF closed = <<>>
            THEN /\ stats.total_trades = 0 /\ stats.winning_trades = 0
                 /\ stats.losing_trades = 0 /\ stats.win_rate = R(0)
                 /\ stats.avg_win = R(0) /\ stats.avg_loss = R(0)
                 /\ stats.profit_factor = R(0)
            ELSE /\ stats.total_trades = Len(closed)
                 /\ stats.win_rate = Rat(CountSigned(closed, 1), Len(closed))
                 /\ stats.profit_factor =
                        IF CountSigned(closed, -1) = 0 THEN R(0)
                        ELSE RDiv(RSum(SignedPnls(closed, 1)),
                                  RAbs(RSum(SignedPnls(closed, -1))))

\* a history of a win, a flat trade and another win: no loss
C31_Witness ==
    /\ StatisticsCall
    /\ Len(last.args) = 3
    /\ last.args[2].realized_pnl = R(0)
    /\ last.ret.winning_trades = 2
    /\ last.ret.losing_trades = 0
    /\ last.ret.win_rate = Rat(2, 3)
    /\ last.ret.profit_factor = R(0)

----------------------------------------------------------------------------
DrawdownCall == last.op = "calculate_max_drawdown"

\* the running peak of curve[1..i] and the drawdown at i
PeakAt(curve, i) ==
    CHOOSE v \in {curve[j] : j \in 1..i} : \A j \in 1..i : RGe(v, curve[j])
DrawdownAt(curve, i) == RSub(PeakAt(curve, i), curve[i])

\* the first position of the largest drawdown
DeepestAt(curve) ==
    CHOOSE i \in 1..Len(curve) :
        /\ \A j \in 1..Len(curve) : RGe(DrawdownAt(curve, i), DrawdownAt(curve, j))
        /\ \A j \in 1..(i - 1) : RLt(DrawdownAt(curve, j), DrawdownAt(curve, i))

NonDecreasing(curve) == \A i \in 1..(Len(curve) - 1) : RLe(curve[i], curve[i + 1])

\* C32: the maximum drawdown of an equity curve is the largest, over its
\* positions i, of (running peak of curve[1..i] - curve[i]); it is 0 for an
\* empty and for a non-decreasing curve and never negative; the percentage is
\* that drawdown over the peak in force at the first position where it occurs,
\* x 100, and 0 when that peak is not positive.
C32_MaxDrawdown ==
    DrawdownCall =>
        LET curve == last.args
        IN  /\ RGe(last.ret[1], R(0))
            /\ (curve = <<>> \/ NonDecreasing(curve)) => last.ret = <<R(0), R(0)>>
            /\ curve # <<>> =>
                   LET i == DeepestAt(curve)
                   IN  /\ last.ret[1] = DrawdownAt(curve, i)
                       /\ last.ret[2] =
                              IF RGt(PeakAt(curve, i), R(0))
                              THEN RMul(RDiv(DrawdownAt(curve, i), PeakAt(curve, i)), R(100))
                              ELSE R(0)

\* a curve with the same largest drawdown under two peaks: 50, 0, 100, 50
C32_Witness ==
    /\ DrawdownCall
    /\ last.args = <<R(50), R(0), R(100), R(50)>>
    /\ last.ret = <<R(50), R(100)>>

----------------------------------------------------------------------------
MarginCall == last.op = "check_margin_requirements"

\* the sum of notional / leverage over the positions of the call
MarginUsed ==
    RSum([i \in 1..Len(last.args.positions) |->
            RDiv(last.args.positions[i].notional_value,
                 R(last.args.positions[i].leverage))])

\* the levels of a usage percentage
LevelsOf(usage) ==
    /\ last.ret.margin_usage_pct = usage
    /\ last.ret.is_warning = RGt(usage, R(80))
    /\ last.ret.is_critical = RGt(usage, R(90))
    /\ last.ret.is_critical => last.ret.is_warning

\* C33 as stated: the margin status reports total_margin_used = the sum of
\* notional / leverage over the live positions and margin_usage_pct = margin
\* used / available capital x 100 (for an available capital other than 0), the
\* warning exactly above 80 and critical exactly above 90.
C33_MarginStatus ==
    MarginCall /\ last.args.available_capital # R(0) =>
        /\ last.ret.total_margin_used = MarginUsed
        /\ LevelsOf(RMul(RDiv(MarginUsed, last.args.available_capital), R(100)))

\* C33: the margin status reports total_margin_used = the sum of notional /
\* leverage over the live positions and margin_usage_pct = margin used /
\* available capital x 100 when the available capital is above 0, and 0 when
\* it is not; the warning is set exactly when margin_usage_pct > 80 and critical
\* exactly when margin_usage_pct > 90, so critical implies the warning.
C33_MarginStatusPositiveCapital ==
    MarginCall =>
        /\ last.ret.total_margin_used = MarginUsed
        /\ LevelsOf(IF RGt(last.args.available_capital, R(0))
                    THEN RMul(RDiv(MarginUsed, last.args.available_capital), R(100))
                    ELSE R(0))

\* a margin of 5000 on a capital of 6000: the warning without critical
C33_Witness ==
    /\ MarginCall
    /\ MarginUsed = R(5000)
    /\ last.args.available_capital = R(6000)
    /\ last.ret.is_warning
    /\ ~last.ret.is_critical

\* the call was a run of update_positions between two suspensions
PassCall == last.op = "update_positions"

\* the number of closed records that carry the id
ClosedCount(id) ==
    Cardinality({ i \in 1..Len(closed_positions) : closed_positions[i].position_id = id })

\* C34: with tasks interleaving only at the awaits of the database writes, two
\* closes of the same symbol give one closed record for the position and one
\* credit of its margin and P&L: no two closed records carry the same id, the
\* capital plus the live margin is the initial capital plus the realized P&L of
\* the closed records, a close by hand that finds no live position leaves the
\* ledger as it was, and an exit of update_positions that finds no live position
\* leaves the one closed record of the position it evaluated.
C34_ClosedOnce ==
    /\ \A i, j \in 1..Len(closed_positions) :
          i # j => closed_positions[i].position_id # closed_positions[j].position_id
    /\ RAdd(config.current_capital, LiveMargin(Ledger))
          = RAdd(config.initial_capital, SumClosedRealized)
    /\ (last.op = "close" /\ last.symbol \notin DOMAIN last.before.positions)
          => LedgerUnchanged /\ last.ret = "None"
    /\ PassCall =>
          \A i \in 1..Len(last.ret) :
              last.ret[i].closed = 0 => ClosedCount(last.ret[i].evaluated) = 1

\* update_positions, resumed, reaches the stop loss of a position that a close
\* by hand closed while it was suspended
C34_Witness ==
    /\ PassCall
    /\ \E i \in 1..Len(last.ret) :
          /\ last.ret[i].closed = 0
          /\ \E k \in 1..Len(closed_positions) :
                /\ closed_positions[k].position_id = last.ret[i].evaluated
                /\ closed_positions[k].exit_reason = "manual"

----------------------------------------------------------------------------
\* the last call reached its database writes and they failed
WriteFailed(op) == last.op = op /\ last.effective /\ last.db # "ok"

\* the position the call found under its symbol
Found == last.before.positions[last.symbol]

\* C36: the ledger is changed before the database writes and is not put back
\* when they fail: after an open, an add, a reduce or a close whose write
\* failed, the positions, the closed history and current_capital have the values
\* of the completed transition.
C36_NoRollback ==
    /\ WriteFailed("open") =>
          /\ last.symbol \in DOMAIN positions
          /\ positions[last.symbol].quantity = last.args.quantity
          /\ config.current_capital =
                RSub(last.before.capital,
                     RDiv(RMul(last.args.quantity, last.args.entry_price),
                          R(last.args.leverage)))
          /\ closed_positions = last.before.closed_positions
    /\ WriteFailed("add") =>
          /\ positions[last.symbol].quantity =
                RAdd(Found.quantity, last.args.additional_quantity)
          /\ config.current_capital =
                RSub(last.before.capital,
                     RDiv(RMul(last.args.additional_quantity, last.args.entry_price),
                          R(Found.leverage)))
          /\ closed_positions = last.before.closed_positions
    /\ (WriteFailed("reduce") /\ RLt(last.args.reduce_quantity, Found.quantity)) =>
          /\ positions[last.symbol].quantity =
                RSub(Found.quantity, last.args.reduce_quantity)
          /\ config.current_capital =
                RAdd(last.before.capital,
                     RAdd(RDiv(RMul(last.args.reduce_quantity, Found.entry_price),
                               R(Found.leverage)),
                          RMul(RSub(last.args.exit_price, Found.entry_price),
                               last.args.reduce_quantity)))
          /\ closed_positions = last.before.closed_positions
    /\ (\/ WriteFailed("close")
        \/ WriteFailed("reduce") /\ RGe(last.args.reduce_quantity, Found.quantity)) =>
          /\ last.symbol \notin DOMAIN positions
          /\ Len(closed_positions) = Len(last.before.closed_positions) + 1
          /\ closed_positions[Len(closed_positions)].position_id = Found.position_id
          /\ config.current_capital =
                RAdd(last.before.capital,
                     RAdd(RDiv(Found.notional_value, R(Found.leverage)),
                          RMul(RSub(last.args.exit_price, Found.entry_price),
                               Found.quantity)))

\* a partial reduce whose database connection failed raised to its caller
C36_Witness ==
    /\ WriteFailed("reduce")
    /\ last.db = "connect_fails"
    /\ last.ret = "raise sqlite3.Error"
    /\ RLt(last.args.reduce_quantity, Found.quantity)
    /\ last.symbol \in DOMAIN positions

----------------------------------------------------------------------------
\* C37: when every open follows a can_open_new_position that returned
\* (True, "OK") for its symbol and notional in the same state, the number of
\* live positions never exceeds max_concurrent_positions.
C37_AdmittedWithinLimit ==
    Cardinality(DOMAIN positions) <= config.max_concurrent_positions

\* with as many positions live as the session allows, a further open was
\* refused for the number of positions
C37_Witness ==
    /\ last.op = "can_open"
    /\ last.ret.reason = "Max positions reached"
    /\ Cardinality(DOMAIN positions) = config.max_concurrent_positions
    /\ last.symbol \notin DOMAIN positions

----------------------------------------------------------------------------
\* the ids of the positions that open_position created
OpenedIds ==
    { trade_history[i].position_id :
        i \in { k \in 1..Len(trade_history) : trade_history[k].action = "OPEN" } }

\* C38: no position is ever lost: every position that was opened is the live
\* position of its symbol or has exactly one closed record with its id.
C38_NoPositionLost ==
    \A id \in OpenedIds : id \in LiveIds(positions) \/ ClosedCount(id) = 1

----------------------------------------------------------------------------
\* C39: the total realized P&L of the ledger accounts for every P&L amount
\* credited to the capital: in every reachable state, also after partial
\* reduces, current_capital plus the margin of the live positions equals the
\* initial capital plus get_total_realized_pnl().
C39_RealizedAccountsForCredits ==
    RAdd(config.current_capital, LiveMargin(Ledger))
        = RAdd(config.initial_capital, get_total_realized_pnl(Ledger))

----------------------------------------------------------------------------
\* the prices of the tick that belong to a live position
PricesOfLive == [s \in DOMAIN last.args \cap DOMAIN last.before.positions |-> last.args[s]]

\* C40: a call that names a symbol without a live position changes nothing: a
\* close returns no closed position, a reduce fails with "No position found",
\* and update_positions ignores the prices of symbols without a live position;
\* positions, capital, closed history and trade history stay as they were.
\* update_positions leaves every live position without a price in the tick as
\* it was.
C40_NoLivePositionNoChange ==
    /\ (last.op = "close" /\ last.symbol \notin DOMAIN last.before.positions) =>
          last.ret = "None" /\ LedgerUnchanged
    /\ (last.op = "reduce" /\ last.symbol \notin DOMAIN last.before.positions) =>
          last.ret = "ValueError: No position found" /\ LedgerUnchanged
    /\ last.op = "update" =>
          /\ Ledger = update_positions(last.before, last.before.pos_order, PricesOfLive)
          /\ DOMAIN PricesOfLive = {} => LedgerUnchanged
          /\ \A s \in DOMAIN last.before.positions \ DOMAIN last.args :
                s \in DOMAIN positions /\ positions[s] = last.before.positions[s]

\* a tick with a price for a symbol without a live position and none for the
\* live position, which had been marked away from its entry price
C40_Witness ==
    /\ last.op = "update"
    /\ \E s \in DOMAIN last.args : s \notin DOMAIN last.before.positions
    /\ \E s \in DOMAIN last.before.positions :
          /\ s \notin DOMAIN last.args
          /\ last.before.positions[s].current_price # last.before.positions[s].entry_price
    /\ LedgerUnchanged

====
